---- MODULE Spec2Model ----
(***************************************************************************)
(* Lyric-to-caption alignment of Youtube-Romaji.                           *)
(*                                                                         *)
(*  - tools/romaji-timestamp-gui/renderer.js: the dynamic-programming      *)
(*    aligner (alignSequencesSync / alignSequences) and the segment        *)
(*    builder (generateTimedSegments).                                     *)
(*  - server/index.js: the greedy content aligner                          *)
(*    (alignLyricsToSubtitles) and its positional fallback                 *)
(*    (alignByPosition).                                                   *)
(*                                                                         *)
(* A JavaScript string is a sequence of one-character strings.  Array      *)
(* indices stored inside ops are the 0-based indices of the source; the    *)
(* TLA+ sequences holding the arrays are 1-based, hence the "+ 1" at every *)
(* array access.  An op's donor and target fields are always sequences of  *)
(* indices (a single index i is <<i>>).                                    *)
(*                                                                         *)
(* Times are exact: a donor time is an even number of ticks (one tick is   *)
(* half a unit of the caption time grid), so halving a duration is exact.  *)
(* The quotient and the products of alignByPosition are IEEE-754 doubles.  *)
(***************************************************************************)
EXTENDS Integers, Sequences, FiniteSets, TLC

\* ------------------------------------------------------------------ bounds
MaxDonor == 2       \* longest donor (timed) sequence
MaxTarget == 3      \* longest target (reference) sequence
MaxTime == 1        \* donor times range over 0, 2, .., 2*MaxTime ticks
MaxCues == 2        \* longest cue list handed to the server's aligners
MaxRaw == 2         \* longest list of raw reference lines
MaxPosCues == 44    \* most cues handed to alignByPosition on its own
MaxPosLines == 30   \* most reference lines handed to alignByPosition on its own

\* Normalized lines the inputs are drawn from.
LinePool == { <<>>, <<"a">>, <<"b">>, <<"a", " ", "b">> }

\* The lines of the timed inputs: "a" and "a a" are enough for every kind
\* of op (two "a" merge into "a a", "a a" splits into two "a").
TimedPool == { <<"a">>, <<"a", " ", "a">> }

TimeGrid == { 2 * k : k \in 0..MaxTime }

SeqsUpTo(S, n) == UNION { [1..k -> S] : k \in 0..n }

VARIABLES
  donorLines,    \* renderer: the timed lines handed to the aligner
  targetLines,   \* renderer: the normalized reference lines
  alignments,    \* renderer: the op list returned by the aligner
  segments,      \* renderer: the output of generateTimedSegments
  trace,         \* history: every step of the backtrack walk, skips included
  stoppedAt,     \* history: the cell where the backtrack walk ended
  dpFinal,       \* history: dp[n][m]
  pc,            \* renderer: "ready" -> "aligned" -> "built"
  geniusLyrics,        \* server: geniusLyrics.split('\n').map(trim)
  subtitleLines,       \* server: per cue, what kuroshiro.convert returns for
                       \*   it ('' when the conversion throws)
  firstIsJapanese,     \* server: isJapaneseText(subtitleLines[0] || '')
  kuroshiro,           \* server: module-level `kuroshiro` ("null"/"object")
  kuroshiroReady,      \* server: module-level `kuroshiroReady`
  lyricsLines,         \* server: the filtered reference lines
  romanizedSubtitles,  \* server: local array of alignLyricsToSubtitles
  aligned,             \* server: local array `aligned`
  lyricsIndex,         \* server: local cursor `lyricsIndex`
  totalSimilarity,     \* server: local sum `totalSimilarity`
  matchDetails,        \* server: local array `matchDetails`
  cueIdx,              \* server: loop variable i of the main loop
  cueLog,              \* history: per processed cue, its kind and score
  result,              \* server: the returned object
  spc,                 \* server: position of the alignLyricsToSubtitles call
  calls,               \* server: the concurrent alignLyricsToSubtitles calls
  romanizedCache,      \* server: the romanized_cache row of one video
  requests,            \* server: the POST /romanize requests for that video
  upsertTimed,         \* server: the POST /romaji/upsertTimed request for it
  hpc,                   \* renderer: position of the handleFetchAlign run
  enableDonor,           \* renderer: config.ENABLE_DONOR is true or 'true'
  tokenizer,             \* renderer: module-level `tokenizer`
  tracks,                \* renderer: local of getDonorCaptions
  captionResult,         \* renderer: local of handleFetchAlign
  donorResult,           \* renderer: local of handleFetchAlign
  currentResult,         \* renderer: module-level `currentResult`
  pushDbBtnDisabled,     \* renderer: pushDbBtn.disabled
  fetchAlignBtnDisabled, \* renderer: fetchAlignBtn.disabled
  ladderLog,             \* history: the timing sources tried, in order
  whisperInProgress,     \* renderer: module-level `whisperInProgress`
  proc,                  \* renderer: the subprocess of alignWithWhisper
  stderr,                \* renderer: the stderr lines received so far
  downloadPhaseStarted,  \* renderer: local of the promise executor
  downloadTimer          \* renderer: the timer behind `downloadTimer`

alignerVars == << donorLines, targetLines, alignments, segments, trace,
                  stoppedAt, dpFinal, pc >>

serverVars == << geniusLyrics, subtitleLines, firstIsJapanese, kuroshiro,
                 kuroshiroReady, lyricsLines, romanizedSubtitles, aligned,
                 lyricsIndex, totalSimilarity, matchDetails, cueIdx, cueLog,
                 result, spc >>

callVars == << calls >>

lockVars == << romanizedCache, requests, upsertTimed >>

ladderVars == << hpc, enableDonor, tokenizer, tracks, captionResult, donorResult,
                currentResult, pushDbBtnDisabled, fetchAlignBtnDisabled,
                ladderLog, whisperInProgress, proc, stderr,
                downloadPhaseStarted, downloadTimer >>

whisperVars == << whisperInProgress, proc, stderr, downloadPhaseStarted,
                  downloadTimer >>

restVars == << callVars, lockVars, ladderVars >>

vars == << alignerVars, serverVars, restVars >>

\* --------------------------------------------------- levenshteinDistance
Min3(x, y, z) == IF x <= y /\ x <= z THEN x ELSE IF y <= z THEN y ELSE z

\* One row of the matrix: `prev` is row i-1, `cur` holds columns 0..j-1 of
\* row i (column c is stored at position c+1), bch is b.charAt(i-1).
RECURSIVE LevRow(_, _, _, _, _)
LevRow(prev, cur, a, bch, j) ==
  IF j > Len(a) THEN cur
  ELSE LET v == IF bch = a[j]
                THEN prev[j]
                ELSE Min3(prev[j] + 1, cur[j] + 1, prev[j + 1] + 1)
       IN LevRow(prev, Append(cur, v), a, bch, j + 1)

RECURSIVE LevRows(_, _, _, _)
LevRows(prev, a, b, i) ==
  IF i > Len(b) THEN prev
  ELSE \* the row is computed in full before the next one is started
       LET row == LevRow(prev, << i >>, a, b[i], 1) IN
       IF Len(row) = Len(a) + 1 THEN LevRows(row, a, b, i + 1) ELSE row

levenshteinDistance(a, b) ==
  LevRows([c \in 1..(Len(a) + 1) |-> c - 1], a, b, 1)[Len(a) + 1]

\* ---------------------------------------------------- alignSequencesSync
Infinity == 1000000      \* stands for the Infinity the table is filled with
SkipDonorCost == 2
SkipTargetCost == 3

Space == << " " >>

\* if (pred + cost < dp[i][j]) { dp[i][j] = pred + cost; backtrack[i][j] = act }
\* Relax without its comparison: the last candidate always wins.
RelaxAlways(cell, cand, act) == [cost |-> cand, action |-> act]

\* Relax that keeps the first candidate of a cell, whatever the later ones
\* cost.
RelaxFirst(cell, cand, act) ==
  IF cell.action = "null" THEN [cost |-> cand, action |-> act] ELSE cell

Relax(cell, cand, act) ==
  IF cand < cell.cost THEN [cost |-> cand, action |-> act] ELSE cell

\* The body of the double loop for one cell (i, j) # (0, 0).
CellValue(dp, d, t, i, j) ==
  LET c0 == dp[i, j]
      c1 == IF i > 0 /\ j > 0
            THEN Relax(c0, dp[i - 1, j - 1].cost
                           + levenshteinDistance(d[i].normalized, t[j]),
                       "match")
            ELSE c0
      c2 == IF i > 0
            THEN Relax(c1, dp[i - 1, j].cost + SkipDonorCost, "skip_donor")
            ELSE c1
      c3 == IF j > 0
            THEN Relax(c2, dp[i, j - 1].cost + SkipTargetCost, "skip_target")
            ELSE c2
      c4 == IF i > 1 /\ j > 0
            THEN Relax(c3, dp[i - 2, j - 1].cost
                           + levenshteinDistance(
                               d[i - 1].normalized \o Space \o d[i].normalized,
                               t[j]),
                       "merge_donor")
            ELSE c3
      c5 == IF i > 0 /\ j > 1
            THEN Relax(c4, dp[i - 1, j - 2].cost
                           + levenshteinDistance(
                               d[i].normalized,
                               t[j - 1] \o Space \o t[j]),
                       "split_target")
            ELSE c4
  IN c5

\* dp and backtrack right after allocation: Infinity / null, dp[0][0] = 0.
\* EmptyTable with every cost 0 instead of Infinity.
EmptyTableZero(n, m) ==
  [i \in 0..n, j \in 0..m |-> [cost |-> 0, action |-> "null"]]

EmptyTable(n, m) ==
  [i \in 0..n, j \in 0..m |->
     [cost |-> IF i = 0 /\ j = 0 THEN 0 ELSE Infinity, action |-> "null"]]

\* The double loop, cell k of the row-major order (i outer, j inner).
RECURSIVE FillTable(_, _, _, _)
FillTable(dp, d, t, k) ==
  LET n == Len(d)
      m == Len(t)
      i == k \div (m + 1)
      j == k % (m + 1)
  IN IF k >= (n + 1) * (m + 1) THEN dp
     ELSE IF i = 0 /\ j = 0 THEN FillTable(dp, d, t, k + 1)
     ELSE FillTable([dp EXCEPT ![i, j] = CellValue(dp, d, t, i, j)],
                    d, t, k + 1)

Step(type, donor, target) == [type |-> type, donor |-> donor, target |-> target]

\* One branch of the backtracking loop at cell (i, j): the op it unshifts
\* (skip branches unshift nothing, .recorded = FALSE) and the cell it moves to.
\* BackStep whose merge_donor branch moves back one donor line only.
BackStepMergeShort(action, i, j) ==
  IF action = "match" THEN
    [op |-> Step("match", << i - 1 >>, << j - 1 >>), recorded |-> TRUE,
     i |-> i - 1, j |-> j - 1]
  ELSE IF action = "merge_donor" THEN
    [op |-> Step("merge_donor", << i - 2, i - 1 >>, << j - 1 >>),
     recorded |-> TRUE, i |-> i - 1, j |-> j - 1]
  ELSE IF action = "split_target" THEN
    [op |-> Step("split_target", << i - 1 >>, << j - 2, j - 1 >>),
     recorded |-> TRUE, i |-> i - 1, j |-> j - 2]
  ELSE IF action = "skip_donor" THEN
    [op |-> Step("skip_donor", << i - 1 >>, << >>), recorded |-> FALSE,
     i |-> i - 1, j |-> j]
  ELSE
    [op |-> Step("skip_target", << >>, << j - 1 >>), recorded |-> FALSE,
     i |-> i, j |-> j - 1]

\* BackStep whose split_target branch moves back one target line only.
BackStepSplitShort(action, i, j) ==
  IF action = "match" THEN
    [op |-> Step("match", << i - 1 >>, << j - 1 >>), recorded |-> TRUE,
     i |-> i - 1, j |-> j - 1]
  ELSE IF action = "merge_donor" THEN
    [op |-> Step("merge_donor", << i - 2, i - 1 >>, << j - 1 >>),
     recorded |-> TRUE, i |-> i - 2, j |-> j - 1]
  ELSE IF action = "split_target" THEN
    [op |-> Step("split_target", << i - 1 >>, << j - 2, j - 1 >>),
     recorded |-> TRUE, i |-> i - 1, j |-> j - 1]
  ELSE IF action = "skip_donor" THEN
    [op |-> Step("skip_donor", << i - 1 >>, << >>), recorded |-> FALSE,
     i |-> i - 1, j |-> j]
  ELSE
    [op |-> Step("skip_target", << >>, << j - 1 >>), recorded |-> FALSE,
     i |-> i, j |-> j - 1]

BackStep(action, i, j) ==
  IF action = "match" THEN
    [op |-> Step("match", << i - 1 >>, << j - 1 >>), recorded |-> TRUE,
     i |-> i - 1, j |-> j - 1]
  ELSE IF action = "merge_donor" THEN
    [op |-> Step("merge_donor", << i - 2, i - 1 >>, << j - 1 >>),
     recorded |-> TRUE, i |-> i - 2, j |-> j - 1]
  ELSE IF action = "split_target" THEN
    [op |-> Step("split_target", << i - 1 >>, << j - 2, j - 1 >>),
     recorded |-> TRUE, i |-> i - 1, j |-> j - 2]
  ELSE IF action = "skip_donor" THEN
    [op |-> Step("skip_donor", << i - 1 >>, << >>), recorded |-> FALSE,
     i |-> i - 1, j |-> j]
  ELSE
    [op |-> Step("skip_target", << >>, << j - 1 >>), recorded |-> FALSE,
     i |-> i, j |-> j - 1]

\* The backtracking while loop.  acc.alignments is the array the loop
\* unshifts into; acc.trace additionally records the skip steps, which the
\* loop takes without recording them.
RECURSIVE Backtrack(_, _, _, _)
Backtrack(dp, i, j, acc) ==
  IF ~(i > 0 \/ j > 0) THEN [acc EXCEPT !.i = i, !.j = j]
  ELSE
    LET action == dp[i, j].action IN
    IF action = "null" THEN [acc EXCEPT !.i = i, !.j = j]      \* break
    ELSE
      LET step == BackStep(action, i, j) IN
      Backtrack(dp, step.i, step.j,
                [acc EXCEPT !.alignments = IF step.recorded
                                           THEN << step.op >> \o @ ELSE @,
                            !.trace = << step.op >> \o @])

\* The whole function.  Its return value is the field .alignments; the
\* fields .trace, .i, .j and .cost expose the walk and dp[n][m] to the
\* properties.
alignSequencesSync(d, t) ==
  LET n == Len(d)
      m == Len(t)
  IN \* CHOOSE over a singleton: the table is filled once
     LET dp == CHOOSE x \in { FillTable(EmptyTable(n, m), d, t, 0) } : TRUE
         walk == Backtrack(dp, n, m,
                           [alignments |-> << >>, trace |-> << >>,
                            i |-> n, j |-> m])
     IN [alignments |-> walk.alignments, trace |-> walk.trace,
         i |-> walk.i, j |-> walk.j, cost |-> dp[n, m].cost]

\* alignSequences repeats the body of alignSequencesSync statement for
\* statement (it only adds two log lines).
alignSequences(d, t) == alignSequencesSync(d, t)

\* ------------------------------------------------- generateTimedSegments
\* The segments one op contributes (the body of the for..of loop).
\* SegmentsOf whose merge_donor branch ends at the first donor line.
SegmentsOfMergeFirstEnd(align, d, t) ==
  IF align.type = "match" THEN
    LET donor == d[align.donor[1] + 1] IN
    << [start |-> donor.start, end |-> donor.end,
        text |-> t[align.target[1] + 1]] >>
  ELSE IF align.type = "merge_donor" THEN
    LET donors == [k \in 1..Len(align.donor) |-> d[align.donor[k] + 1]] IN
    << [start |-> donors[1].start, end |-> donors[1].end,
        text |-> t[align.target[1] + 1]] >>
  ELSE IF align.type = "split_target" THEN
    LET donor == d[align.donor[1] + 1]
        duration == donor.end - donor.start
        targetIndices == align.target
        numSplits == Len(targetIndices)
        splitDuration == duration \div numSplits
    IN [k \in 1..numSplits |->
          [start |-> donor.start + (k - 1) * splitDuration,
           end |-> donor.start + k * splitDuration,
           text |-> t[targetIndices[k] + 1]]]
  ELSE << >>

\* SegmentsOf whose split_target branch starts every part at donor.start.
SegmentsOfSplitFromStart(align, d, t) ==
  IF align.type = "match" THEN
    LET donor == d[align.donor[1] + 1] IN
    << [start |-> donor.start, end |-> donor.end,
        text |-> t[align.target[1] + 1]] >>
  ELSE IF align.type = "merge_donor" THEN
    LET donors == [k \in 1..Len(align.donor) |-> d[align.donor[k] + 1]] IN
    << [start |-> donors[1].start, end |-> donors[Len(donors)].end,
        text |-> t[align.target[1] + 1]] >>
  ELSE IF align.type = "split_target" THEN
    LET donor == d[align.donor[1] + 1]
        duration == donor.end - donor.start
        targetIndices == align.target
        numSplits == Len(targetIndices)
        splitDuration == duration \div numSplits
    IN [k \in 1..numSplits |->
          [start |-> donor.start,
           end |-> donor.start + splitDuration,
           text |-> t[targetIndices[k] + 1]]]
  ELSE << >>

SegmentsOf(align, d, t) ==
  IF align.type = "match" THEN
    LET donor == d[align.donor[1] + 1] IN
    << [start |-> donor.start, end |-> donor.end,
        text |-> t[align.target[1] + 1]] >>
  ELSE IF align.type = "merge_donor" THEN
    LET donors == [k \in 1..Len(align.donor) |-> d[align.donor[k] + 1]] IN
    << [start |-> donors[1].start, end |-> donors[Len(donors)].end,
        text |-> t[align.target[1] + 1]] >>
  ELSE IF align.type = "split_target" THEN
    LET donor == d[align.donor[1] + 1]
        duration == donor.end - donor.start
        targetIndices == align.target
        numSplits == Len(targetIndices)
        splitDuration == duration \div numSplits
    IN [k \in 1..numSplits |->
          [start |-> donor.start + (k - 1) * splitDuration,
           end |-> donor.start + k * splitDuration,
           text |-> t[targetIndices[k] + 1]]]
  ELSE << >>

RECURSIVE generateTimedSegments(_, _, _)
generateTimedSegments(aligns, d, t) ==
  IF aligns = << >> THEN << >>
  ELSE SegmentsOf(Head(aligns), d, t)
       \o generateTimedSegments(Tail(aligns), d, t)

\* ------------------------------------------------------------ the machine
\* A TimedLine as fetchYouTubeCaptionJSON3 builds it: end = start + duration.
TimedLine(pool) ==
  { l \in [start : TimeGrid, end : TimeGrid, normalized : pool] :
      l.end >= l.start }

\* Caption events are listed in time order, and every caller hands the
\* aligner at least one donor line (getDonorCaptions requires
\* captions.length > 0, alignWithWhisper rejects zero segments).
TimedSeqs(pool) ==
  { d \in SeqsUpTo(TimedLine(pool), MaxDonor) :
      /\ Len(d) > 0
      /\ \A k \in 1..(Len(d) - 1) : d[k].start <= d[k + 1].start }

\* Donor lines that follow one another without overlap: line k spans
\* [2(k-1), 2k].
BackToBack(texts) ==
  [k \in 1..Len(texts) |->
     [start |-> 2 * (k - 1), end |-> 2 * k, normalized |-> texts[k]]]

AlignerStart ==
  /\ alignments = << >>
  /\ segments = << >>
  /\ trace = << >>
  /\ stoppedAt = << 0, 0 >>
  /\ dpFinal = 0
  /\ pc = "ready"

\* The JavaScript value null, where the other values are objects.
Null == [null |-> TRUE]

IsNull(x) == DOMAIN x = { "null" }

\* No concurrent calls, no /romanize request and no handleFetchAlign run.
CallsIdle == calls = << >>

\* The romanized_cache table holds no row for the video.
NoRow == [exists |-> FALSE]

LockIdle ==
  /\ romanizedCache = NoRow
  /\ requests = << >>
  /\ upsertTimed = "none"

LadderIdle ==
  /\ hpc = "idle"
  /\ enableDonor = FALSE
  /\ tokenizer = "null"
  /\ tracks = { }
  /\ captionResult = Null
  /\ donorResult = Null
  /\ currentResult = Null
  /\ pushDbBtnDisabled = TRUE
  /\ fetchAlignBtnDisabled = FALSE
  /\ ladderLog = << >>
  /\ whisperInProgress = FALSE
  /\ proc = "none"
  /\ stderr = << >>
  /\ downloadPhaseStarted = FALSE
  /\ downloadTimer = "null"

RestIdle == CallsIdle /\ LockIdle /\ LadderIdle

\* The server takes no part in the renderer's runs.
ServerIdle ==
  /\ geniusLyrics = << >>
  /\ subtitleLines = << >>
  /\ firstIsJapanese = FALSE
  /\ kuroshiro = "null"
  /\ kuroshiroReady = FALSE
  /\ lyricsLines = << >>
  /\ romanizedSubtitles = << >>
  /\ aligned = << >>
  /\ lyricsIndex = 0
  /\ totalSimilarity = [n |-> 0, d |-> 1]
  /\ matchDetails = << >>
  /\ cueIdx = 0
  /\ cueLog = << >>
  /\ result = "none"
  /\ spc = "idle"

\* Every text of the pool, on back-to-back donor lines.
Init ==
  /\ donorLines \in { BackToBack(x) : x \in SeqsUpTo(LinePool, MaxDonor) \ { << >> } }
  /\ targetLines \in SeqsUpTo(LinePool, MaxTarget)
  /\ AlignerStart
  /\ ServerIdle
  /\ RestIdle

\* Every timing of the grid (overlapping and empty lines included), on the
\* texts of the small pool.
InitTimed ==
  /\ donorLines \in TimedSeqs(TimedPool)
  /\ targetLines \in SeqsUpTo(TimedPool, MaxTarget)
  /\ AlignerStart
  /\ ServerIdle
  /\ RestIdle

\* alignWithWhisper's close handler: alignSequencesSync(whisperLines, ..)
AlignSync ==
  /\ pc = "ready"
  /\ \E run \in { alignSequencesSync(donorLines, targetLines) } :
       /\ alignments' = run.alignments
       /\ trace' = run.trace
       /\ stoppedAt' = << run.i, run.j >>
       /\ dpFinal' = run.cost
  /\ pc' = "aligned"
  /\ UNCHANGED << donorLines, targetLines, segments >>
  /\ UNCHANGED << serverVars, restVars >>

\* handleFetchAlign's caption and donor paths: await alignSequences(..)
AlignAsync ==
  /\ pc = "ready"
  /\ \E run \in { alignSequences(donorLines, targetLines) } :
       /\ alignments' = run.alignments
       /\ trace' = run.trace
       /\ stoppedAt' = << run.i, run.j >>
       /\ dpFinal' = run.cost
  /\ pc' = "aligned"
  /\ UNCHANGED << donorLines, targetLines, segments >>
  /\ UNCHANGED << serverVars, restVars >>

GenerateSegments ==
  /\ pc = "aligned"
  /\ segments' = generateTimedSegments(alignments, donorLines, targetLines)
  /\ pc' = "built"
  /\ UNCHANGED << donorLines, targetLines, alignments, trace, stoppedAt,
                  dpFinal >>
  /\ UNCHANGED << serverVars, restVars >>

Next == AlignSync \/ AlignAsync \/ GenerateSegments

Spec == Init /\ [][Next]_vars

SpecTimed == InitTimed /\ [][Next]_vars

\* alignSequencesSync on lines that lie far apart: the empty line and runs
\* of 5 to 8 letters, whose distances to one another and to the joined
\* pairs reach from 0 to 8.
MaxFarDonor == 2
MaxFarTarget == 2

Run(n) == [k \in 1..n |-> "a"]

FarDonorPool == { Run(0), Run(5), Run(6), Run(7), Run(8) }
FarTargetPool == { Run(0), Run(6), Run(7) }

InitFar ==
  /\ donorLines \in { BackToBack(x) :
                        x \in SeqsUpTo(FarDonorPool, MaxFarDonor) \ { << >> } }
  /\ targetLines \in SeqsUpTo(FarTargetPool, MaxFarTarget)
  /\ AlignerStart
  /\ ServerIdle
  /\ RestIdle

NextFar == AlignSync \/ GenerateSegments

SpecFar == InitFar /\ [][NextFar]_vars

\* ===================================================== server/index.js
\* ------------------------------------------------------------- strings
Min2(x, y) == IF x <= y THEN x ELSE y

Lowers == << "a", "b", "c", "d", "e", "f", "g", "h", "i", "j", "k", "l", "m",
            "n", "o", "p", "q", "r", "s", "t", "u", "v", "w", "x", "y", "z" >>
Uppers == << "A", "B", "C", "D", "E", "F", "G", "H", "I", "J", "K", "L", "M",
            "N", "O", "P", "Q", "R", "S", "T", "U", "V", "W", "X", "Y", "Z" >>
Digits == { "0", "1", "2", "3", "4", "5", "6", "7", "8", "9" }

LowerOf(ch) ==
  IF \E k \in 1..Len(Uppers) : Uppers[k] = ch
  THEN Lowers[CHOOSE k \in 1..Len(Uppers) : Uppers[k] = ch]
  ELSE ch

toLowerCase(text) == [k \in 1..Len(text) |-> LowerOf(text[k])]

\* \w is [A-Za-z0-9_]; \s is the space (the only whitespace of the model).
IsWordChar(ch) ==
  \/ \E k \in 1..Len(Lowers) : Lowers[k] = ch \/ Uppers[k] = ch
  \/ ch \in Digits
  \/ ch = "_"
IsSpaceChar(ch) == ch = " "
IsWordOrSpace(ch) == IsWordChar(ch) \/ IsSpaceChar(ch)
NotSpaceChar(ch) == ~IsSpaceChar(ch)

\* .replace(/\s+/g, ' '): every run of whitespace becomes one space
RECURSIVE CollapseSpaces(_)
CollapseSpaces(text) ==
  IF text = << >> THEN << >>
  ELSE IF IsSpaceChar(Head(text))
       THEN IF Len(text) > 1 /\ IsSpaceChar(text[2])
            THEN CollapseSpaces(Tail(text))
            ELSE << " " >> \o CollapseSpaces(Tail(text))
       ELSE << Head(text) >> \o CollapseSpaces(Tail(text))

RECURSIVE TrimStart(_)
TrimStart(text) ==
  IF text # << >> /\ IsSpaceChar(Head(text)) THEN TrimStart(Tail(text))
  ELSE text

RECURSIVE TrimEnd(_)
TrimEnd(text) ==
  IF text # << >> /\ IsSpaceChar(text[Len(text)])
  THEN TrimEnd(SubSeq(text, 1, Len(text) - 1))
  ELSE text

trim(text) == TrimEnd(TrimStart(text))

normalizeText(text) ==
  trim(CollapseSpaces(SelectSeq(toLowerCase(text), IsWordOrSpace)))

\* .replace(/\s+/g, '')
RemoveSpaces(text) == SelectSeq(text, NotSpaceChar)

\* hay.includes(needle)
includes(hay, needle) ==
  \E k \in 0..(Len(hay) - Len(needle)) :
    SubSeq(hay, k + 1, k + Len(needle)) = needle

\* lines.join(', ')
RECURSIVE join(_)
join(lines) ==
  IF lines = << >> THEN << >>
  ELSE IF Len(lines) = 1 THEN lines[1]
  ELSE lines[1] \o << ",", " " >> \o join(Tail(lines))

\* ------------------------------------------------------------- scores
\* A score is an exact fraction n/d in lowest terms, d > 0.
RECURSIVE GCD(_, _)
GCD(x, y) == IF y = 0 THEN x ELSE GCD(y, x % y)

Frac(n, d) ==
  LET g == IF n = 0 THEN d ELSE GCD(n, d)
  IN [n |-> n \div g, d |-> d \div g]

FracAdd(x, y) == Frac(x.n * y.d + y.n * x.d, x.d * y.d)
FracDiv(x, k) == Frac(x.n, x.d * k)
FracLess(x, y) == x.n * y.d < y.n * x.d
Zero == Frac(0, 1)
One == Frac(1, 1)

\* stringSimilarity.compareTwoStrings (npm string-similarity): the Dice
\* coefficient of the two strings' bigram multisets, whitespace removed.
Bigram(text, k) == SubSeq(text, k, k + 1)

\* The second loop: `counts` maps each bigram of `first` to the number of
\* its occurrences not yet matched.
RECURSIVE IntersectionSize(_, _, _)
IntersectionSize(counts, second, k) ==
  IF k > Len(second) - 1 THEN 0
  ELSE LET bigram == Bigram(second, k) IN
       IF bigram \in DOMAIN counts /\ counts[bigram] > 0
       THEN 1 + IntersectionSize([counts EXCEPT ![bigram] = @ - 1],
                                 second, k + 1)
       ELSE IntersectionSize(counts, second, k + 1)

compareTwoStrings(a, b) ==
  LET first == RemoveSpaces(a)
      second == RemoveSpaces(b)
  IN IF first = second THEN One
     ELSE IF Len(first) < 2 \/ Len(second) < 2 THEN Zero
     ELSE
       LET firstBigrams ==
             [g \in { Bigram(first, k) : k \in 1..(Len(first) - 1) } |->
                Cardinality({ k \in 1..(Len(first) - 1) :
                                Bigram(first, k) = g })]
       IN Frac(2 * IntersectionSize(firstBigrams, second, 1),
               Len(first) + Len(second) - 2)

\* ------------------------------------------------------- line filters
SectionNames ==
  { << "i", "n", "t", "r", "o" >>, << "o", "u", "t", "r", "o" >>,
    << "v", "e", "r", "s", "e" >>, << "c", "h", "o", "r", "u", "s" >>,
    << "b", "r", "i", "d", "g", "e" >>,
    << "r", "e", "f", "r", "a", "i", "n" >>,
    << "b", "r", "e", "a", "k", "d", "o", "w", "n" >>,
    << "p", "r", "e", "-", "c", "h", "o", "r", "u", "s" >>,
    << "p", "o", "s", "t", "-", "c", "h", "o", "r", "u", "s" >> }

\* Case folding of the /i flag.
FoldCase(text) == toLowerCase(text)

Bracketed(line) ==
  Len(line) >= 2 /\ line[1] = "[" /\ line[Len(line)] = "]"
Inner(line) == SubSeq(line, 2, Len(line) - 1)

\* /^\[.*:.*\]$/
IsLabelLine(line) ==
  Bracketed(line) /\ \E k \in 1..Len(Inner(line)) : Inner(line)[k] = ":"

\* /^\[(Intro|Outro|..|Post-Chorus)\]$/i
IsPlainSection(line) ==
  Bracketed(line) /\ FoldCase(Inner(line)) \in SectionNames

\* /^\[(Intro|Outro|..|Post-Chorus)(\s+\d+)?\]$/i
IsNumberedSection(line) ==
  /\ Bracketed(line)
  /\ LET inner == FoldCase(Inner(line)) IN
       \/ inner \in SectionNames
       \/ \E p \in 1..Len(inner), q \in 1..Len(inner) :
            /\ p < q
            /\ SubSeq(inner, 1, p) \in SectionNames
            /\ \A k \in (p + 1)..q : IsSpaceChar(inner[k])
            /\ q < Len(inner)
            /\ \A k \in (q + 1)..Len(inner) : inner[k] \in Digits

\* /^\[.*[\u300C\u300D].*\]$/  (the corner brackets are written here as the
\* one-character strings "LQ" and "RQ")
IsQuoteHeader(line) ==
  Bracketed(line)
  /\ \E k \in 1..Len(Inner(line)) : Inner(line)[k] \in { "LQ", "RQ" }

\* The filter callback of alignLyricsToSubtitles.
KeepLyricLine(line) ==
  /\ Len(line) # 0
  /\ ~IsLabelLine(line)
  /\ ~IsNumberedSection(line)
  /\ ~IsQuoteHeader(line)

\* The filter callback of alignByPosition.
KeepLyricLineByPosition(line) ==
  /\ Len(line) # 0
  /\ ~IsLabelLine(line)
  /\ ~IsPlainSection(line)

Undefined == "undefined"

\* ------------------------------------------------- JavaScript numbers
\* The quotient lyricsLines.length / subtitleLines.length and its products
\* with a cue index are IEEE-754 doubles.  A double is kept as [m, e],
\* standing for m * 2^e with m < 2^53 (or m = 2^53 after a carry); m is a
\* natural number written in limbs of 13 bits, least significant first,
\* since 2^53 does not fit the integers of the model checker.
LimbBase == 2 ^ 13

RECURSIVE BigMulSmall(_, _, _)
BigMulSmall(a, k, carry) ==
  IF a = << >>
  THEN IF carry = 0 THEN << >>
       ELSE << carry % LimbBase >> \o BigMulSmall(<< >>, k, carry \div LimbBase)
  ELSE LET v == Head(a) * k + carry
       IN << v % LimbBase >> \o BigMulSmall(Tail(a), k, v \div LimbBase)

RECURSIVE BigStrip(_)
BigStrip(a) ==
  IF a # << >> /\ a[Len(a)] = 0 THEN BigStrip(SubSeq(a, 1, Len(a) - 1)) ELSE a

\* Long division by a number below LimbBase, from the top limb down.
RECURSIVE BigDivFrom(_, _, _, _, _)
BigDivFrom(a, k, pos, rem, q) ==
  IF pos = 0 THEN [q |-> BigStrip(q), r |-> rem]
  ELSE LET cur == rem * LimbBase + a[pos]
       IN BigDivFrom(a, k, pos - 1, cur % k, << cur \div k >> \o q)

BigDivSmall(a, k) == BigDivFrom(a, k, Len(a), 0, << >>)

RECURSIVE SmallBitLen(_)
SmallBitLen(x) == IF x = 0 THEN 0 ELSE 1 + SmallBitLen(x \div 2)

BitLen(a) ==
  IF a = << >> THEN 0 ELSE 13 * (Len(a) - 1) + SmallBitLen(a[Len(a)])

RECURSIVE BigAddOne(_)
BigAddOne(a) ==
  IF a = << >> THEN << 1 >>
  ELSE IF Head(a) + 1 < LimbBase THEN << Head(a) + 1 >> \o Tail(a)
  ELSE << 0 >> \o BigAddOne(Tail(a))

BigIsOdd(a) == a # << >> /\ a[1] % 2 = 1

\* a shifted right by s bits, and whether a one was shifted out.
BigShiftRight(a, s) ==
  LET limbs == s \div 13
      dropped == SubSeq(a, 1, Min2(limbs, Len(a)))
      d == BigDivSmall(SubSeq(a, limbs + 1, Len(a)), 2 ^ (s % 13))
  IN [q |-> d.q,
      sticky |-> d.r # 0 \/ \E k \in 1..Len(dropped) : dropped[k] # 0]

\* The double nearest to (n + f) * 2^e, ties to even, where 0 <= f < 1 and
\* f # 0 exactly when sticky.
RoundToDouble(n, sticky, e) ==
  IF BitLen(n) <= 53 THEN [m |-> n, e |-> e]
  ELSE LET s == BitLen(n) - 53
           upper == BigShiftRight(n, s - 1)
           q == BigShiftRight(upper.q, 1).q
           up == /\ BigIsOdd(upper.q)
                 /\ (upper.sticky \/ sticky \/ BigIsOdd(q))
       IN [m |-> IF up THEN BigAddOne(q) ELSE q, e |-> e + s]

\* x / y for integers 0 < x, 0 < y < LimbBase.
DoubleDiv(x, y) ==
  LET d == BigDivSmall(<< 0, 0, 0, 0, 0, x >>, y)          \* x * 2^65 / y
  IN RoundToDouble(d.q, d.r # 0, -65)

\* i * x for an integer 0 <= i < LimbBase and a double x.
DoubleTimes(i, x) == RoundToDouble(BigMulSmall(x.m, i, 0), FALSE, x.e)

\* Math.round in the place of Math.floor.
MathRound(x) ==
  LET h == IF x.e >= 0 THEN BigMulSmall(x.m, 2 ^ (x.e + 1), 0)
           ELSE BigShiftRight(x.m, -x.e - 1).q
  IN IF h = << >> THEN 0 ELSE (h[1] + 1) \div 2

\* Math.floor(x) for a double 0 <= x < LimbBase.
MathFloor(x) ==
  LET q == IF x.e >= 0 THEN BigMulSmall(x.m, 2 ^ x.e, 0)
           ELSE BigShiftRight(x.m, -x.e).q
  IN IF q = << >> THEN 0 ELSE q[1]


\* ------------------------------------------------------ alignByPosition
\* ratio, i * ratio and (i + 1) * ratio are doubles, as in the source.
alignByPosition(lyrics, subs) ==
  LET lines == SelectSeq(lyrics, KeepLyricLineByPosition)
      L == Len(lines)
      S == Len(subs)
  IN IF L = 0
     THEN [ok |-> FALSE, reason |-> "no_lyric_lines", aligned |-> Undefined,
           confidence |-> Undefined, method |-> Undefined]
     ELSE
       LET ratio == DoubleDiv(L, S)     \* evaluated only when S > 0
           floorTimes(i) == MathFloor(DoubleTimes(i, ratio))
           pick(i) == lines[Min2(floorTimes(i), L - 1) + 1]
           window(i) ==
             SubSeq(lines, floorTimes(i) + 1, Min2(floorTimes(i + 1), L))
           out ==
             IF L < S                                   \* ratio < 1.0
             THEN [k \in 1..S |-> pick(k - 1)]
             ELSE IF S > 0 /\ 2 * L <= 3 * S            \* 1.0 <= ratio <= 1.5
             THEN [k \in 1..S |->
                     IF Len(window(k - 1)) > 1 THEN join(window(k - 1))
                     ELSE IF Len(window(k - 1)) = 1 THEN window(k - 1)[1]
                     ELSE lines[L]]
             ELSE [k \in 1..S |-> pick(k - 1)]          \* ratio > 1.5
       IN [ok |-> TRUE, reason |-> Undefined, aligned |-> out,
           confidence |-> Frac(7, 10), method |-> "position-fallback"]

\* ------------------------------------------------ alignLyricsToSubtitles
ContinuationScore == Frac(95, 100)     \* 0.95
SequentialScore == Frac(3, 10)         \* 0.3
AcceptScore == Frac(4, 10)             \* 0.4
PerfectScore == Frac(90, 100)          \* 0.90
NextMatchMin == Frac(75, 100)          \* 0.75
ReverseMatchMin == Frac(80, 100)       \* 0.80
MinConfidence == Frac(45, 100)         \* MIN_CONFIDENCE = 0.45
MaxLinesToCombine == 4

NoCombination == [numLines |-> 0, lines |-> << >>, text |-> << >>,
                  score |-> Zero]

\* ScanCombinations that scores the window of one line only.
ScanFirstWindow(lines, idx, normalizedSub, numLines, best) ==
  IF idx + 1 > Len(lines) THEN best
  ELSE LET combinedLines == SubSeq(lines, idx + 1, idx + 1)
           score == compareTwoStrings(normalizedSub,
                                      normalizeText(join(combinedLines)))
       IN IF FracLess(best.score, score)
          THEN [numLines |-> 1, lines |-> combinedLines,
                text |-> join(combinedLines), score |-> score]
          ELSE best

\* The for loop over numLines: `best` is bestCombination (numLines = 0 for
\* null), whose score is bestScore.
RECURSIVE ScanCombinations(_, _, _, _, _)
ScanCombinations(lines, idx, normalizedSub, numLines, best) ==
  IF numLines > MaxLinesToCombine \/ idx + numLines > Len(lines) THEN best
  ELSE
    LET combinedLines == SubSeq(lines, idx + 1, idx + numLines)
        combined == join(combinedLines)
        score == compareTwoStrings(normalizedSub, normalizeText(combined))
        better == IF FracLess(best.score, score)
                  THEN [numLines |-> numLines, lines |-> combinedLines,
                        text |-> combined, score |-> score]
                  ELSE best
    IN IF FracLess(PerfectScore, score) THEN better
       ELSE ScanCombinations(lines, idx, normalizedSub, numLines + 1, better)

\* The inner for loop of the anti-greedy check, from line j on.
RECURSIVE ReduceCombination(_, _, _, _)
ReduceCombination(best, normalizedSub, nextNormalizedSub, j) ==
  IF j >= best.numLines THEN best
  ELSE
    LET potentialNextLine == normalizeText(best.lines[j + 1])
        nextMatchScore == compareTwoStrings(nextNormalizedSub,
                                            potentialNextLine)
        reverseMatchScore ==
          IF includes(potentialNextLine, nextNormalizedSub) THEN One
          ELSE compareTwoStrings(potentialNextLine, nextNormalizedSub)
    IN IF FracLess(NextMatchMin, nextMatchScore)
          /\ FracLess(ReverseMatchMin, reverseMatchScore)
       THEN [numLines |-> j,
             lines |-> SubSeq(best.lines, 1, j),
             text |-> join(SubSeq(best.lines, 1, j)),
             score |-> compareTwoStrings(
                         normalizedSub,
                         normalizeText(join(SubSeq(best.lines, 1, j))))]
       ELSE ReduceCombination(best, normalizedSub, nextNormalizedSub, j + 1)

\* AntiGreedy that never shrinks the combination.
AntiGreedyOff(best, romanized, normalizedSub, i) == best

\* The anti-greedy check: `i` is the 0-based index of the cue.
AntiGreedy(best, romanized, normalizedSub, i) ==
  IF best.numLines > 1 /\ i < Len(romanized) - 1
  THEN LET nextNormalizedSub == normalizeText(romanized[i + 2]) IN
       IF nextNormalizedSub = << >> THEN best
       ELSE IF includes(normalizeText(best.text), nextNormalizedSub)
       THEN best
       ELSE ReduceCombination(best, normalizedSub, nextNormalizedSub, 1)
  ELSE best

\* The state the main loop threads through its iterations: aligned,
\* lyricsIndex, totalSimilarity, matchDetails; the field log records how
\* the cue was handled, with which score, and where it left the cursor.
LoopState(alignedLines, idx, total, details, kind, score) ==
  [aligned |-> alignedLines, lyricsIndex |-> idx, totalSimilarity |-> total,
   matchDetails |-> details,
   log |-> [kind |-> kind, score |-> score, cursor |-> idx]]

\* EmptyCue that pushes nothing once the reference lines are used up.
EmptyCueNoBlank(st, lines) ==
  IF st.lyricsIndex < Len(lines)
  THEN LoopState(Append(st.aligned, lines[st.lyricsIndex + 1]),
                 st.lyricsIndex + 1, st.totalSimilarity, st.matchDetails,
                 "empty", Zero)
  ELSE LoopState(st.aligned, st.lyricsIndex, st.totalSimilarity,
                 st.matchDetails, "empty", Zero)

\* if (!normalizedSub) { aligned.push(..); continue; }
EmptyCue(st, lines) ==
  IF st.lyricsIndex < Len(lines)
  THEN LoopState(Append(st.aligned, lines[st.lyricsIndex + 1]),
                 st.lyricsIndex + 1, st.totalSimilarity, st.matchDetails,
                 "empty", Zero)
  ELSE LoopState(Append(st.aligned, << >>), st.lyricsIndex,
                 st.totalSimilarity, st.matchDetails, "empty", Zero)

\* IsContinuation without the minimum length of the cue.
IsContinuationAnyLength(st, normalizedSub, i) ==
  /\ i > 0
  /\ st.aligned[i] # << >>
  /\ includes(RemoveSpaces(normalizeText(st.aligned[i])),
              RemoveSpaces(normalizedSub))

\* The condition of the continuation branch, for the cue of 0-based index i.
IsContinuation(st, normalizedSub, i) ==
  /\ i > 0
  /\ st.aligned[i] # << >>
  /\ includes(RemoveSpaces(normalizeText(st.aligned[i])),
              RemoveSpaces(normalizedSub))
  /\ Len(RemoveSpaces(normalizedSub)) > 3

\* Continuation that also takes a reference line.
ContinuationConsuming(st, prevRomanization) ==
  LoopState(Append(st.aligned, prevRomanization), st.lyricsIndex + 1,
            FracAdd(st.totalSimilarity, ContinuationScore),
            Append(st.matchDetails,
                   [matched |-> prevRomanization,
                    score |-> ContinuationScore, kind |-> "continuation"]),
            "continuation", ContinuationScore)

\* The body of the continuation branch.
Continuation(st, prevRomanization) ==
  LoopState(Append(st.aligned, prevRomanization), st.lyricsIndex,
            FracAdd(st.totalSimilarity, ContinuationScore),
            Append(st.matchDetails,
                   [matched |-> prevRomanization,
                    score |-> ContinuationScore, kind |-> "continuation"]),
            "continuation", ContinuationScore)

\* if (bestCombination && bestCombination.score > 0.4) { .. }
AcceptCombination(st, bestCombination) ==
  LoopState(Append(st.aligned, bestCombination.text),
            st.lyricsIndex + bestCombination.numLines,
            FracAdd(st.totalSimilarity, bestCombination.score),
            Append(st.matchDetails,
                   [matched |-> bestCombination.text,
                    score |-> bestCombination.score,
                    kind |-> IF bestCombination.numLines > 1
                             THEN "combined" ELSE "single"]),
            "combination", bestCombination.score)

\* else { // No good match - use sequential .. }
\* SequentialFallback that moves the cursor even when no line is left.
SequentialFallbackUnchecked(st, lines) ==
  IF st.lyricsIndex < Len(lines)
  THEN LoopState(Append(st.aligned, lines[st.lyricsIndex + 1]),
                 st.lyricsIndex + 1,
                 FracAdd(st.totalSimilarity, SequentialScore),
                 Append(st.matchDetails,
                        [matched |-> lines[st.lyricsIndex + 1],
                         score |-> SequentialScore, kind |-> "sequential"]),
                 "sequential", SequentialScore)
  ELSE LoopState(Append(st.aligned, << >>), st.lyricsIndex + 1,
                 FracAdd(st.totalSimilarity, Zero), st.matchDetails,
                 "blank", Zero)

SequentialFallback(st, lines) ==
  IF st.lyricsIndex < Len(lines)
  THEN LoopState(Append(st.aligned, lines[st.lyricsIndex + 1]),
                 st.lyricsIndex + 1,
                 FracAdd(st.totalSimilarity, SequentialScore),
                 Append(st.matchDetails,
                        [matched |-> lines[st.lyricsIndex + 1],
                         score |-> SequentialScore, kind |-> "sequential"]),
                 "sequential", SequentialScore)
  ELSE LoopState(Append(st.aligned, << >>), st.lyricsIndex,
                 FracAdd(st.totalSimilarity, Zero), st.matchDetails,
                 "blank", Zero)

\* The combination the iteration settles on (numLines = 0 for null).
BestCombination(st, lines, romanized, i) ==
  LET normalizedSub == normalizeText(romanized[i + 1]) IN
  AntiGreedy(ScanCombinations(lines, st.lyricsIndex, normalizedSub, 1,
                              NoCombination),
             romanized, normalizedSub, i)

\* One iteration of the main loop, for the cue of 0-based index i.
CueStep(st, lines, romanized, i) ==
  LET normalizedSub == normalizeText(romanized[i + 1]) IN
  IF normalizedSub = << >> THEN EmptyCue(st, lines)
  ELSE IF IsContinuation(st, normalizedSub, i)
  THEN Continuation(st, st.aligned[i])
  ELSE
    LET bestCombination ==
          CHOOSE x \in { BestCombination(st, lines, romanized, i) } : TRUE
    IN IF bestCombination.numLines > 0
          /\ FracLess(AcceptScore, bestCombination.score)
       THEN AcceptCombination(st, bestCombination)
       ELSE SequentialFallback(st, lines)

\* The return statements after the main loop.
\* ContentResult that also rejects a confidence of exactly MIN_CONFIDENCE.
ContentResultInclusive(alignedLines, total, details, S) ==
  LET avgConfidence == FracDiv(total, S) IN
  IF ~FracLess(MinConfidence, avgConfidence)
  THEN [ok |-> FALSE, reason |-> "low_confidence",
        confidence |-> avgConfidence, aligned |-> alignedLines,
        matchDetails |-> details, method |-> Undefined]
  ELSE [ok |-> TRUE, reason |-> Undefined, confidence |-> avgConfidence,
        aligned |-> alignedLines, method |-> "kuroshiro-content-matching"]

ContentResult(alignedLines, total, details, S) ==
  LET avgConfidence == FracDiv(total, S) IN
  IF FracLess(avgConfidence, MinConfidence)
  THEN [ok |-> FALSE, reason |-> "low_confidence",
        confidence |-> avgConfidence, aligned |-> alignedLines,
        matchDetails |-> details, method |-> Undefined]
  ELSE [ok |-> TRUE, reason |-> Undefined, confidence |-> avgConfidence,
        aligned |-> alignedLines, method |-> "kuroshiro-content-matching"]

\* ---------------------------------------------------- the server machine
\* What kuroshiro.convert returns for a cue ('' when it throws).
CuePool ==
  { << >>, << "a", "b", "c", "d", "x", "y" >>, << "a", "b", " ", "c", "d" >>,
    << "c", " ", "d" >> }

\* Raw reference lines, trimmed.
RawPool ==
  { << >>, << "[", "C", "h", "o", "r", "u", "s", "]" >>,
    << "[", "V", "e", "r", "s", "e", " ", "2", "]" >>,
    << "a", "b", "c", "d", "z", "w" >>, << "A", "b" >>, << "c", "d" >> }

\* The renderer takes no part in the server's runs.
AlignerIdle ==
  /\ donorLines = << >>
  /\ targetLines = << >>
  /\ alignments = << >>
  /\ segments = << >>
  /\ trace = << >>
  /\ stoppedAt = << 0, 0 >>
  /\ dpFinal = 0
  /\ pc = "idle"

\* The romanizer is not loaded, ready, or left unready by a failed init.
RomanizerStates ==
  { << "null", FALSE >>, << "object", TRUE >>, << "object", FALSE >> }

\* One call alignLyricsToSubtitles(geniusLyrics, subtitleLines).
\* geniusLyrics.split('\n') has at least one element.
InitServer ==
  /\ geniusLyrics \in SeqsUpTo(RawPool, MaxRaw) \ { << >> }
  /\ subtitleLines \in SeqsUpTo(CuePool, MaxCues)
  /\ firstIsJapanese \in (IF subtitleLines = << >> THEN { FALSE } ELSE BOOLEAN)
  /\ \E rs \in RomanizerStates : kuroshiro = rs[1] /\ kuroshiroReady = rs[2]
  /\ lyricsLines = << >>
  /\ romanizedSubtitles = << >>
  /\ aligned = << >>
  /\ lyricsIndex = 0
  /\ totalSimilarity = Zero
  /\ matchDetails = << >>
  /\ cueIdx = 0
  /\ cueLog = << >>
  /\ result = "none"
  /\ spc = "call"
  /\ AlignerIdle
  /\ RestIdle

\* return alignByPosition(geniusLyrics, subtitleLines); lyricsLines is then
\* the local of that name in alignByPosition.
ReturnByPosition ==
  /\ result' = alignByPosition(geniusLyrics, subtitleLines)
  /\ lyricsLines' = SelectSeq(geniusLyrics, KeepLyricLineByPosition)
  /\ spc' = "returnedPosition"
  /\ UNCHANGED << romanizedSubtitles, aligned, lyricsIndex,
                  totalSimilarity, matchDetails, cueIdx, cueLog >>

\* From the line filter to the start of the main loop.
Prepare ==
  LET filtered == SelectSeq(geniusLyrics, KeepLyricLine) IN
  /\ lyricsLines' = filtered
  /\ IF Len(filtered) = 0
     THEN /\ result' = [ok |-> FALSE, reason |-> "no_lyric_lines",
                        aligned |-> Undefined, confidence |-> Undefined,
                        method |-> Undefined]
          /\ spc' = "returnedNoLines"
          /\ UNCHANGED romanizedSubtitles
     ELSE /\ romanizedSubtitles' = subtitleLines
          /\ spc' = "loop"
          /\ UNCHANGED result
  /\ UNCHANGED << aligned, lyricsIndex, totalSimilarity, matchDetails,
                  cueIdx, cueLog >>

\* The call, up to its first await or return.
AlignStart ==
  /\ spc = "call"
  /\ IF ~firstIsJapanese
     THEN ReturnByPosition /\ UNCHANGED << kuroshiro, kuroshiroReady >>
     ELSE IF kuroshiroReady
     THEN Prepare /\ UNCHANGED << kuroshiro, kuroshiroReady >>
     ELSE IF kuroshiro # "null"
     THEN \* initKuroshiro returns at once
          ReturnByPosition /\ UNCHANGED << kuroshiro, kuroshiroReady >>
     ELSE \/ \* require or a constructor throws, before or after the
             \* assignment of kuroshiro: caught, not ready
             /\ kuroshiroReady' = FALSE
             /\ kuroshiro' \in { "null", "object" }
             /\ ReturnByPosition
          \/ \* kuroshiro = new Kuroshiro(); await kuroshiro.init(..)
             /\ kuroshiro' = "object"
             /\ spc' = "awaitInit"
             /\ UNCHANGED << kuroshiroReady, lyricsLines, romanizedSubtitles,
                             aligned, lyricsIndex, totalSimilarity,
                             matchDetails, cueIdx, cueLog, result >>
  /\ UNCHANGED << geniusLyrics, subtitleLines, firstIsJapanese >>
  /\ UNCHANGED << alignerVars, restVars >>

\* kuroshiro.init resolves: kuroshiroReady = true, the call goes on.
InitKuroshiroResolves ==
  /\ spc = "awaitInit"
  /\ kuroshiroReady' = TRUE
  /\ Prepare
  /\ UNCHANGED << geniusLyrics, subtitleLines, firstIsJapanese, kuroshiro >>
  /\ UNCHANGED << alignerVars, restVars >>

\* InitKuroshiroRejects that goes on to the content matcher all the same.
InitKuroshiroRejectsUnnoticed ==
  /\ spc = "awaitInit"
  /\ kuroshiroReady' = FALSE
  /\ Prepare
  /\ UNCHANGED << geniusLyrics, subtitleLines, firstIsJapanese, kuroshiro >>
  /\ UNCHANGED << alignerVars, restVars >>

\* kuroshiro.init rejects: caught, kuroshiroReady = false, position fallback.
InitKuroshiroRejects ==
  /\ spc = "awaitInit"
  /\ kuroshiroReady' = FALSE
  /\ ReturnByPosition
  /\ UNCHANGED << geniusLyrics, subtitleLines, firstIsJapanese, kuroshiro >>
  /\ UNCHANGED << alignerVars, restVars >>

\* One iteration of the main loop.
ProcessCue ==
  /\ spc = "loop"
  /\ cueIdx < Len(subtitleLines)
  /\ \E st \in { CueStep([aligned |-> aligned, lyricsIndex |-> lyricsIndex,
                         totalSimilarity |-> totalSimilarity,
                         matchDetails |-> matchDetails],
                        lyricsLines, romanizedSubtitles, cueIdx) } :
       /\ aligned' = st.aligned
       /\ lyricsIndex' = st.lyricsIndex
       /\ totalSimilarity' = st.totalSimilarity
       /\ matchDetails' = st.matchDetails
       /\ cueLog' = Append(cueLog, st.log)
  /\ cueIdx' = cueIdx + 1
  /\ UNCHANGED << geniusLyrics, subtitleLines, firstIsJapanese, kuroshiro,
                  kuroshiroReady, lyricsLines, romanizedSubtitles, result,
                  spc >>
  /\ UNCHANGED << alignerVars, restVars >>

\* The end of the loop: the confidence gate and the return.
AlignFinish ==
  /\ spc = "loop"
  /\ cueIdx = Len(subtitleLines)
  /\ result' = ContentResult(aligned, totalSimilarity, matchDetails,
                             Len(subtitleLines))
  /\ spc' = "returnedContent"
  /\ UNCHANGED << geniusLyrics, subtitleLines, firstIsJapanese, kuroshiro,
                  kuroshiroReady, lyricsLines, romanizedSubtitles, aligned,
                  lyricsIndex, totalSimilarity, matchDetails, cueIdx, cueLog >>
  /\ UNCHANGED << alignerVars, restVars >>

\* ------------------------------------------------ the main loop alone
MaxScanLines == 4   \* most filtered reference lines handed to the main loop
MaxScanCues == 2    \* most cues handed to the main loop

\* Filtered reference lines.
ScanLinePool == { << "a", "b" >>, << "c", "d" >> }

\* Romanized cues: one that four lines make up, one that two lines make
\* up, and two that the line "cd" answers.
ScanCuePool ==
  { << "a", "b", " ", "c", "d", " ", "a", "b", " ", "c", "d" >>,
    << "a", "b", " ", "c", "d" >>, << "c", " ", "d" >>, << "c", "d" >> }

\* alignLyricsToSubtitles at the start of its main loop, the romanizer
\* ready, no line filtered out.
InitScan ==
  /\ lyricsLines \in SeqsUpTo(ScanLinePool, MaxScanLines) \ { << >> }
  /\ romanizedSubtitles \in SeqsUpTo(ScanCuePool, MaxScanCues) \ { << >> }
  /\ geniusLyrics = lyricsLines
  /\ subtitleLines = romanizedSubtitles
  /\ firstIsJapanese = TRUE
  /\ kuroshiro = "object"
  /\ kuroshiroReady = TRUE
  /\ aligned = << >>
  /\ lyricsIndex = 0
  /\ totalSimilarity = Zero
  /\ matchDetails = << >>
  /\ cueIdx = 0
  /\ cueLog = << >>
  /\ result = "none"
  /\ spc = "loop"
  /\ AlignerIdle
  /\ RestIdle

NextScan == ProcessCue \/ AlignFinish

SpecScan == InitScan /\ [][NextScan]_vars

\* The k-th of the distinct reference lines "aa", "ab", .., "zz".
LineName(k) ==
  << Lowers[((k - 1) \div 26) + 1], Lowers[((k - 1) % 26) + 1] >>

\* One call alignByPosition(geniusLyrics, subtitleLines) with L distinct
\* reference lines and S cues.
InitPosition ==
  /\ \E L \in 1..MaxPosLines : geniusLyrics = [k \in 1..L |-> LineName(k)]
  /\ \E S \in 1..MaxPosCues : subtitleLines = [k \in 1..S |-> << "a" >>]
  /\ firstIsJapanese = FALSE
  /\ kuroshiro = "null"
  /\ kuroshiroReady = FALSE
  /\ lyricsLines = << >>
  /\ romanizedSubtitles = << >>
  /\ aligned = << >>
  /\ lyricsIndex = 0
  /\ totalSimilarity = Zero
  /\ matchDetails = << >>
  /\ cueIdx = 0
  /\ cueLog = << >>
  /\ result = "none"
  /\ spc = "call"
  /\ AlignerIdle
  /\ RestIdle

\* The whole of alignByPosition.
AlignByPositionCall ==
  /\ spc = "call"
  /\ ReturnByPosition
  /\ UNCHANGED << geniusLyrics, subtitleLines, firstIsJapanese, kuroshiro,
                  kuroshiroReady >>
  /\ UNCHANGED << alignerVars, restVars >>

NextPosition == AlignByPositionCall

SpecPosition == InitPosition /\ [][NextPosition]_vars

NextServer ==
  \/ AlignStart
  \/ InitKuroshiroResolves
  \/ InitKuroshiroRejects
  \/ ProcessCue
  \/ AlignFinish

SpecServer == InitServer /\ [][NextServer]_vars

\* ------------------------------------------- concurrent alignment calls
NumCalls == 2       \* alignLyricsToSubtitles calls in flight together

\* The main loop and the confidence gate, run to the end.
RECURSIVE RunCues(_, _, _, _)
RunCues(st, lines, romanized, i) ==
  IF i >= Len(romanized) THEN st
  ELSE RunCues(CueStep(st, lines, romanized, i), lines, romanized, i + 1)

\* alignLyricsToSubtitles from the line filter on, the romanizer being ready.
ContentMatching(lyrics, subs) ==
  LET filtered == SelectSeq(lyrics, KeepLyricLine) IN
  IF Len(filtered) = 0
  THEN [ok |-> FALSE, reason |-> "no_lyric_lines", aligned |-> Undefined,
        confidence |-> Undefined, method |-> Undefined]
  ELSE LET st == RunCues([aligned |-> << >>, lyricsIndex |-> 0,
                          totalSimilarity |-> Zero, matchDetails |-> << >>],
                         filtered, subs, 0)
       IN ContentResult(st.aligned, st.totalSimilarity, st.matchDetails,
                        Len(subs))

\* The arguments of the concurrent calls: a cue the content matcher pairs
\* with one line, a cue it pairs with two lines, lyrics with a section
\* header, and cues that are not Japanese.
CallInputs ==
  { [geniusLyrics |-> << << "a", "b", "c", "d", "z", "w" >> >>,
     subtitleLines |-> << << "a", "b", "c", "d", "x", "y" >> >>,
     firstIsJapanese |-> TRUE],
    [geniusLyrics |-> << << "A", "b" >>, << "c", "d" >> >>,
     subtitleLines |-> << << "a", "b", " ", "c", "d" >> >>,
     firstIsJapanese |-> TRUE],
    [geniusLyrics |-> << << "[", "C", "h", "o", "r", "u", "s", "]" >> >>,
     subtitleLines |-> << << "c", " ", "d" >> >>,
     firstIsJapanese |-> TRUE],
    [geniusLyrics |-> << << "A", "b" >>, << "c", "d" >> >>,
     subtitleLines |-> << << "c", " ", "d" >> >>,
     firstIsJapanese |-> FALSE] }

NewCall(input) ==
  [pc |-> "call", geniusLyrics |-> input.geniusLyrics,
   subtitleLines |-> input.subtitleLines,
   firstIsJapanese |-> input.firstIsJapanese, via |-> "none",
   result |-> "none"]

InitCalls ==
  /\ calls \in [1..NumCalls -> { NewCall(input) : input \in CallInputs }]
  /\ \E rs \in RomanizerStates : kuroshiro = rs[1] /\ kuroshiroReady = rs[2]
  /\ geniusLyrics = << >>
  /\ subtitleLines = << >>
  /\ firstIsJapanese = FALSE
  /\ lyricsLines = << >>
  /\ romanizedSubtitles = << >>
  /\ aligned = << >>
  /\ lyricsIndex = 0
  /\ totalSimilarity = Zero
  /\ matchDetails = << >>
  /\ cueIdx = 0
  /\ cueLog = << >>
  /\ result = "none"
  /\ spc = "idle"
  /\ AlignerIdle
  /\ LockIdle
  /\ LadderIdle

\* What the concurrent calls leave alone.
CallFrame ==
  UNCHANGED << alignerVars, lockVars, ladderVars, geniusLyrics,
               subtitleLines, firstIsJapanese, lyricsLines,
               romanizedSubtitles, aligned, lyricsIndex, totalSimilarity,
               matchDetails, cueIdx, cueLog, result, spc >>

\* return alignByPosition(geniusLyrics, subtitleLines)
CallReturnsByPosition(c, why) ==
  calls' = [calls EXCEPT
    ![c].pc = "returned",
    ![c].via = why,
    ![c].result = alignByPosition(calls[c].geniusLyrics,
                                  calls[c].subtitleLines)]

\* Past the romanizer check: the line filter, then the awaits of
\* kuroshiro.convert.
CallGoesOn(c) ==
  IF Len(SelectSeq(calls[c].geniusLyrics, KeepLyricLine)) = 0
  THEN calls' = [calls EXCEPT
         ![c].pc = "returned",
         ![c].via = "content",
         ![c].result = ContentMatching(calls[c].geniusLyrics,
                                       calls[c].subtitleLines)]
  ELSE calls' = [calls EXCEPT ![c].pc = "romanizing"]

\* A call, up to its first await or return.
CallStart(c) ==
  /\ calls[c].pc = "call"
  /\ IF ~calls[c].firstIsJapanese
     THEN CallReturnsByPosition(c, "notJapanese")
          /\ UNCHANGED << kuroshiro, kuroshiroReady >>
     ELSE IF kuroshiroReady
     THEN CallGoesOn(c) /\ UNCHANGED << kuroshiro, kuroshiroReady >>
     ELSE IF kuroshiro # "null"
     THEN \* initKuroshiro returns at once; the call resumes after its await
          /\ calls' = [calls EXCEPT ![c].pc = "awaitReturn"]
          /\ UNCHANGED << kuroshiro, kuroshiroReady >>
     ELSE \/ \* require or a constructor throws, before or after the
             \* assignment of kuroshiro: caught, not ready
             /\ kuroshiroReady' = FALSE
             /\ kuroshiro' \in { "null", "object" }
             /\ CallReturnsByPosition(c, "initThrew")
          \/ \* kuroshiro = new Kuroshiro(); await kuroshiro.init(..)
             /\ kuroshiro' = "object"
             /\ calls' = [calls EXCEPT ![c].pc = "awaitInit"]
             /\ UNCHANGED kuroshiroReady
  /\ CallFrame

\* The call whose initKuroshiro returned at once resumes and reads
\* kuroshiroReady.
CallResumes(c) ==
  /\ calls[c].pc = "awaitReturn"
  /\ IF kuroshiroReady
     THEN CallGoesOn(c)
     ELSE CallReturnsByPosition(c, "notReady")
  /\ UNCHANGED << kuroshiro, kuroshiroReady >>
  /\ CallFrame

\* kuroshiro.init resolves for the call that started it.
CallInitResolves(c) ==
  /\ calls[c].pc = "awaitInit"
  /\ kuroshiroReady' = TRUE
  /\ CallGoesOn(c)
  /\ UNCHANGED kuroshiro
  /\ CallFrame

\* kuroshiro.init rejects for the call that started it.
CallInitRejects(c) ==
  /\ calls[c].pc = "awaitInit"
  /\ kuroshiroReady' = FALSE
  /\ CallReturnsByPosition(c, "initRejected")
  /\ UNCHANGED kuroshiro
  /\ CallFrame

\* The cues are romanized; the main loop runs to the return.
CallMatches(c) ==
  /\ calls[c].pc = "romanizing"
  /\ calls' = [calls EXCEPT
       ![c].pc = "returned",
       ![c].via = "content",
       ![c].result = ContentMatching(calls[c].geniusLyrics,
                                     calls[c].subtitleLines)]
  /\ UNCHANGED << kuroshiro, kuroshiroReady >>
  /\ CallFrame

NextCalls ==
  \E c \in 1..NumCalls :
    \/ CallStart(c)
    \/ CallResumes(c)
    \/ CallInitResolves(c)
    \/ CallInitRejects(c)
    \/ CallMatches(c)

SpecCalls == InitCalls /\ [][NextCalls]_vars

\* ===================================== renderer.js: handleFetchAlign
\* .replace(/[.,!?;:'"(){}[\]]/g, '')
Punctuation ==
  { ".", ",", "!", "?", ";", ":", "'", "\"", "(", ")", "{", "}", "[", "]" }

NotPunctuation(ch) == ch \notin Punctuation

normalizeLine(line) ==
  trim(CollapseSpaces(SelectSeq(toLowerCase(line), NotPunctuation)))

\* What fetchYouTubeCaptionJSON3 returns: null, or the caption lines.  The
\* text of a line stands for the romaji the tokenizer reads from it.
CaptionLists ==
  { Null } \cup
  { [lines |-> x] :
      x \in { << >>,
               << [start |-> 0, end |-> 2, text |-> << "A" >>] >>,
               << [start |-> 0, end |-> 2, text |-> << "A" >>],
                  [start |-> 2, end |-> 4,
                   text |-> << "a", ",", " ", "a" >>] >> } }

\* What fetchGeniusRomaji returns.
GeniusLists ==
  { << >>, << << "a" >> >>, << << "a" >>, << "a", " ", "a" >> >> }

\* The stderr lines the data handler tells apart: one holding 'Downloading
\* audio' or 'Progress:', one holding 'Ready:' or 'Transcribed'.
StderrKinds == { "download", "ready" }

MaxStderr == 2    \* stderr lines received per subprocess

\* The lines alignWithWhisper builds from the transcription.
WhisperLists ==
  { << [start |-> 0, end |-> 2, normalized |-> << "a" >>] >>,
    << [start |-> 0, end |-> 2, normalized |-> << "a" >>],
       [start |-> 2, end |-> 4, normalized |-> << "a", " ", "a" >>] >> }

\* captions && captions.length > 0, for any list at all.
ObtainedAnyList(captions) == ~IsNull(captions)

\* captions && captions.length > 0
Obtained(captions) ==
  IF IsNull(captions) THEN FALSE ELSE Len(captions.lines) > 0

\* line.normalized = normalizeLine(romaji), for every caption line
Romanized(captions) ==
  [k \in 1..Len(captions) |->
     [start |-> captions[k].start, end |-> captions[k].end,
      text |-> captions[k].text,
      normalized |-> normalizeLine(captions[k].text)]]

\* The target indices of the match, merge_donor and split_target ops.
AlignedLines(aligns) ==
  UNION { { a.target[k] : k \in 1..Len(a.target) } :
          a \in { aligns[x] : x \in { y \in 1..Len(aligns) :
                    aligns[y].type \in { "match", "merge_donor",
                                         "split_target" } } } }

\* coverage < 0.70, coverage = alignedLines.size / geniusRomajiLines.length;
\* 0 / 0 is NaN, and NaN < 0.70 is false.
CoverageTooLow(size, m) == m # 0 /\ 10 * size < 7 * m

\* What the history records of a caption fetch.
FetchOutcome(captions) ==
  IF IsNull(captions) THEN "failed"
  ELSE IF Len(captions.lines) = 0 THEN "empty" ELSE "captions"

Logged(step, outcome) ==
  ladderLog' = Append(ladderLog, [step |-> step, outcome |-> outcome])

InitLadder ==
  /\ hpc = "idle"
  /\ enableDonor \in BOOLEAN
  /\ tokenizer \in { "null", "object" }
  /\ tracks = { }
  /\ captionResult = Null
  /\ donorResult = Null
  /\ \/ currentResult = Null /\ pushDbBtnDisabled = TRUE
     \/ /\ currentResult = [segments |-> << >>, timingPath |-> "whisper"]
        /\ pushDbBtnDisabled = FALSE
  /\ fetchAlignBtnDisabled = FALSE
  /\ ladderLog = << >>
  /\ whisperInProgress = FALSE
  /\ proc = "none"
  /\ stderr = << >>
  /\ downloadPhaseStarted = FALSE
  /\ downloadTimer = "null"
  /\ donorLines = << >>
  /\ targetLines = << >>
  /\ alignments = << >>
  /\ segments = << >>
  /\ trace = << >>
  /\ stoppedAt = << 0, 0 >>
  /\ dpFinal = 0
  /\ pc = "idle"
  /\ ServerIdle
  /\ CallsIdle
  /\ LockIdle

LadderFrame == UNCHANGED << serverVars, callVars, lockVars, enableDonor >>

AlignerUntouched ==
  UNCHANGED << donorLines, alignments, segments, trace, stoppedAt, dpFinal,
               pc >>

\* return, or the catch block, then the finally block.
RunEnds ==
  /\ hpc' = "done"
  /\ fetchAlignBtnDisabled' = FALSE

\* From displaySegments to the end of the try block; writeFileSync may
\* throw after currentResult is assigned.
RunSucceeds(segs, path) ==
  /\ currentResult' = [segments |-> segs, timingPath |-> path]
  /\ pushDbBtnDisabled' \in BOOLEAN
  /\ RunEnds

\* The click, up to await fetchGeniusRomaji(geniusUrl).
FetchAlignClick ==
  /\ hpc = "idle"
  /\ ~fetchAlignBtnDisabled
  /\ pushDbBtnDisabled' = TRUE
  /\ currentResult' = Null
  /\ \/ \* a URL is missing or holds no video id
        RunEnds
     \/ /\ hpc' = "awaitGenius"
        /\ fetchAlignBtnDisabled' = TRUE
  /\ UNCHANGED << tokenizer, tracks, captionResult, donorResult, ladderLog,
                  targetLines >>
  /\ UNCHANGED whisperVars
  /\ AlignerUntouched
  /\ LadderFrame

\* fetchGeniusRomaji settles; getDonorCaptions starts with the track list.
GeniusSettles ==
  /\ hpc = "awaitGenius"
  /\ \/ /\ RunEnds
        /\ UNCHANGED targetLines
     \/ /\ targetLines' \in GeniusLists
        /\ hpc' = "awaitTracks"
        /\ UNCHANGED fetchAlignBtnDisabled
  /\ UNCHANGED << tokenizer, tracks, captionResult, donorResult,
                  currentResult, pushDbBtnDisabled, ladderLog >>
  /\ UNCHANGED whisperVars
  /\ AlignerUntouched
  /\ LadderFrame

\* getDonorCaptions returns null and alignWithWhisper is called, up to the
\* await of its promise.  The guard throws if the flag is set; otherwise
\* the flag is set, the promise executor spawns the subprocess, and the
\* `finally` block clears the flag as the promise is returned.
WhisperStarts ==
  /\ captionResult' = Null
  /\ hpc' = "awaitWhisper"
  /\ IF whisperInProgress
     THEN UNCHANGED whisperVars
     ELSE /\ proc' = "running"
          /\ stderr' = << >>
          /\ downloadPhaseStarted' = FALSE
          /\ downloadTimer' = "null"
          /\ whisperInProgress' = FALSE

\* getDonorCaptions after the manual track: the ASR track, or null.
AfterManual(found) ==
  IF "asr" \in found
  THEN hpc' = "awaitAsrJA" /\ UNCHANGED << captionResult, whisperVars >>
  ELSE WhisperStarts

\* fetchYouTubeTrackList settles ([] when it fails).
TrackListSettles ==
  /\ hpc = "awaitTracks"
  /\ \E found \in SUBSET { "manual", "asr" } :
       /\ tracks' = found
       /\ IF "manual" \in found
          THEN hpc' = "awaitManualJA"
               /\ UNCHANGED << captionResult, whisperVars >>
          ELSE AfterManual(found)
  /\ UNCHANGED << tokenizer, donorResult, currentResult, pushDbBtnDisabled,
                  fetchAlignBtnDisabled, ladderLog, targetLines >>
  /\ AlignerUntouched
  /\ LadderFrame

\* The fetch of the manual Japanese track settles.
ManualSettles ==
  /\ hpc = "awaitManualJA"
  /\ \E captions \in CaptionLists :
       /\ Logged("manualJA", FetchOutcome(captions))
       /\ IF Obtained(captions)
          THEN /\ captionResult' = [captions |-> captions.lines,
                                    timingPath |-> "manualJA"]
               /\ hpc' = "awaitKuromoji"
               /\ UNCHANGED whisperVars
          ELSE AfterManual(tracks)
  /\ UNCHANGED << tokenizer, tracks, donorResult, currentResult,
                  pushDbBtnDisabled, fetchAlignBtnDisabled, targetLines >>
  /\ AlignerUntouched
  /\ LadderFrame

\* The fetch of the ASR Japanese track settles.
AsrSettles ==
  /\ hpc = "awaitAsrJA"
  /\ \E captions \in CaptionLists :
       /\ Logged("asrJA", FetchOutcome(captions))
       /\ IF Obtained(captions)
          THEN /\ captionResult' = [captions |-> captions.lines,
                                    timingPath |-> "asrJA"]
               /\ hpc' = "awaitKuromoji"
               /\ UNCHANGED whisperVars
          ELSE WhisperStarts
  /\ UNCHANGED << tokenizer, tracks, donorResult, currentResult,
                  pushDbBtnDisabled, fetchAlignBtnDisabled, targetLines >>
  /\ AlignerUntouched
  /\ LadderFrame

\* initKuromoji settles on the caption path; the captions are romanized,
\* aligned and turned into segments.
CaptionsAligned ==
  /\ hpc = "awaitKuromoji"
  /\ \/ \* the dictionary does not load: the outer catch
        /\ tokenizer = "null"
        /\ Logged(captionResult.timingPath, "threw")
        /\ RunEnds
        /\ UNCHANGED << tokenizer, currentResult, pushDbBtnDisabled >>
        /\ AlignerUntouched
     \/ /\ tokenizer' = "object"
        /\ \E d \in { Romanized(captionResult.captions) } :
           \E run \in { alignSequences(d, targetLines) } :
           \E segs \in { generateTimedSegments(run.alignments, d,
                                               targetLines) } :
             /\ donorLines' = d
             /\ alignments' = run.alignments
             /\ trace' = run.trace
             /\ stoppedAt' = << run.i, run.j >>
             /\ dpFinal' = run.cost
             /\ segments' = segs
             /\ RunSucceeds(segs, captionResult.timingPath)
        /\ Logged(captionResult.timingPath, "segments")
        /\ UNCHANGED pc
  /\ UNCHANGED << tracks, captionResult, donorResult, targetLines >>
  /\ UNCHANGED whisperVars
  /\ LadderFrame

\* catch (whisperErr): the donor search if it is enabled, or the end.
WhisperRejected ==
  /\ Logged("whisper", "rejected")
  /\ IF enableDonor
     THEN hpc' = "awaitDonor" /\ UNCHANGED fetchAlignBtnDisabled
     ELSE RunEnds
  /\ UNCHANGED << currentResult, pushDbBtnDisabled >>

\* One stderr line as the data handler reads it: a line holding
\* 'Downloading audio' or 'Progress:' arms the timer once, a line holding
\* 'Ready:' or 'Transcribed' clears it.  st is << downloadPhaseStarted,
\* downloadTimer >>.
StderrLine(line, st) ==
  LET armed == IF line = "download" /\ ~st[1]
               THEN << TRUE, "armed" >> ELSE st
  IN  IF line = "ready" /\ armed[2] = "armed"
      THEN << armed[1], "null" >> ELSE armed

\* lines.forEach over stderr.split('\n'), from line k on.
RECURSIVE StderrLines(_, _, _)
StderrLines(lines, k, st) ==
  IF k > Len(lines) THEN st
  ELSE StderrLines(lines, k + 1, StderrLine(lines[k], st))

\* proc.stderr.on('data'): the chunk is appended and every line received
\* so far is read again.
WhisperStderr ==
  /\ proc = "running"
  /\ Len(stderr) < MaxStderr
  /\ \E line \in StderrKinds :
     \E st \in { StderrLines(Append(stderr, line), 1,
                              << downloadPhaseStarted, downloadTimer >>) } :
       /\ stderr' = Append(stderr, line)
       /\ downloadPhaseStarted' = st[1]
       /\ downloadTimer' = st[2]
  /\ UNCHANGED << hpc, whisperInProgress, proc, tokenizer, tracks,
                  captionResult, donorResult, currentResult, pushDbBtnDisabled,
                  fetchAlignBtnDisabled, ladderLog, targetLines >>
  /\ AlignerUntouched
  /\ LadderFrame

\* The download timer fires: the process is killed and the promise
\* rejected.
DownloadTimeout ==
  /\ downloadTimer = "armed"
  /\ hpc = "awaitWhisper"
  /\ downloadTimer' = "fired"
  /\ proc' = "killed"
  /\ WhisperRejected
  /\ UNCHANGED << whisperInProgress, stderr, downloadPhaseStarted, tokenizer,
                  tracks, captionResult, donorResult, targetLines >>
  /\ AlignerUntouched
  /\ LadderFrame

\* proc.on('close') of a killed process: the promise is settled already.
KilledProcessCloses ==
  /\ proc = "killed"
  /\ proc' = "closed"
  /\ UNCHANGED << hpc, whisperInProgress, stderr, downloadPhaseStarted,
                  downloadTimer, tokenizer, tracks, captionResult,
                  donorResult, currentResult, pushDbBtnDisabled,
                  fetchAlignBtnDisabled, ladderLog, targetLines >>
  /\ AlignerUntouched
  /\ LadderFrame

\* The promise of alignWithWhisper settles: the call threw at its guard, or
\* the subprocess closes (or fails to start) before any timeout.
WhisperSettles ==
  /\ hpc = "awaitWhisper"
  /\ proc \in { "none", "running" }
  /\ proc' = IF proc = "running" THEN "closed" ELSE proc
  /\ downloadTimer' = IF downloadTimer = "armed" THEN "cleared"
                      ELSE downloadTimer
  /\ UNCHANGED << whisperInProgress, stderr, downloadPhaseStarted >>
  /\ \/ \* no transcription
        /\ WhisperRejected
        /\ AlignerUntouched
     \/ \E whisperLines \in WhisperLists :
        \E run \in { alignSequencesSync(whisperLines, targetLines) } :
        \E segs \in { generateTimedSegments(run.alignments, whisperLines,
                                            targetLines) } :
          /\ donorLines' = whisperLines
          /\ alignments' = run.alignments
          /\ trace' = run.trace
          /\ stoppedAt' = << run.i, run.j >>
          /\ dpFinal' = run.cost
          /\ segments' = segs
          /\ UNCHANGED pc
          /\ IF CoverageTooLow(Cardinality(AlignedLines(run.alignments)),
                               Len(targetLines))
             THEN WhisperRejected
             ELSE /\ Logged("whisper", "segments")
                  /\ RunSucceeds(segs, "whisper")
  /\ UNCHANGED << tokenizer, tracks, captionResult, donorResult,
                  targetLines >>
  /\ LadderFrame

\* searchYouTubeForDonor settles: null, or what getDonorCaptions returned
\* for the first candidate with Japanese captions.
DonorSearchSettles ==
  /\ hpc = "awaitDonor"
  /\ \E found \in { Null } \cup
                  { [captions |-> c.lines, timingPath |-> p] :
                      c \in { x \in CaptionLists : Obtained(x) },
                      p \in { "manualJA", "asrJA" } } :
       /\ donorResult' = found
       /\ IF IsNull(found)
          THEN Logged("donor", "notFound") /\ RunEnds
          ELSE /\ Logged("donor", "found")
               /\ hpc' = "awaitKuromojiDonor"
               /\ UNCHANGED fetchAlignBtnDisabled
  /\ UNCHANGED << tokenizer, tracks, captionResult, currentResult,
                  pushDbBtnDisabled, targetLines >>
  /\ UNCHANGED whisperVars
  /\ AlignerUntouched
  /\ LadderFrame

\* initKuromoji settles on the donor path.  donorResult is the object
\* { captions, timingPath }: `for (const line of donorResult)` throws a
\* TypeError, which the outer catch reports.
DonorAligned ==
  /\ hpc = "awaitKuromojiDonor"
  /\ \/ tokenizer = "null" /\ UNCHANGED tokenizer
     \/ tokenizer' = "object"
  /\ Logged("donor", "threw")
  /\ RunEnds
  /\ UNCHANGED << tracks, captionResult, donorResult, currentResult,
                  pushDbBtnDisabled, targetLines >>
  /\ UNCHANGED whisperVars
  /\ AlignerUntouched
  /\ LadderFrame

NextLadder ==
  \/ FetchAlignClick
  \/ GeniusSettles
  \/ TrackListSettles
  \/ ManualSettles
  \/ AsrSettles
  \/ CaptionsAligned
  \/ WhisperStderr
  \/ DownloadTimeout
  \/ KilledProcessCloses
  \/ WhisperSettles
  \/ DonorSearchSettles
  \/ DonorAligned

SpecLadder == InitLadder /\ [][NextLadder]_vars

\* The same runs when every HTTP collaborator answers, the dictionary load
\* settles and an armed timer fires; nothing makes the Whisper subprocess
\* write to stderr or close.
SpecLadderFair ==
  /\ SpecLadder
  /\ WF_vars(GeniusSettles)
  /\ WF_vars(TrackListSettles)
  /\ WF_vars(ManualSettles)
  /\ WF_vars(AsrSettles)
  /\ WF_vars(CaptionsAligned)
  /\ WF_vars(DownloadTimeout)
  /\ WF_vars(DonorSearchSettles)
  /\ WF_vars(DonorAligned)

\* ============================================ index.js: POST /romanize
NumRequests == 2    \* POST /romanize requests for the one video
MaxRetries == 30    \* while (retries < 30)

\* A row as POST /romanize writes it: no vtt, no segments, not timed.
Row(text) ==
  [exists |-> TRUE, romanized_text |-> text, timed |-> FALSE,
   source |-> "llm"]

\* The row POST /romaji/upsertTimed writes, with its vtt and segments.
TimedRow ==
  [exists |-> TRUE, romanized_text |-> "timed romaji", timed |-> TRUE,
   source |-> "gui-tool"]

NoResponse == [status |-> 0]

\* res.json(..) answers with status 200.
Json(text, cached) == [status |-> 200, romanized |-> text, cached |-> cached]

\* res.status(code).json({ error })
ErrorResponse(code) == [status |-> code]

InitLock ==
  /\ romanizedCache \in { NoRow, Row("romaji") }
  /\ requests = [r \in 1..NumRequests |->
                   [pc |-> "start", retries |-> 0, response |-> NoResponse]]
  /\ upsertTimed = "none"
  /\ AlignerIdle
  /\ ServerIdle
  /\ CallsIdle
  /\ LadderIdle

LockFrame == UNCHANGED << alignerVars, serverVars, callVars, ladderVars >>

Responds(r, response) ==
  /\ requests' = [requests EXCEPT ![r].pc = "done", ![r].response = response]
  /\ UNCHANGED upsertTimed

GoesTo(r, place) ==
  /\ requests' = [requests EXCEPT ![r].pc = place]
  /\ UNCHANGED upsertTimed

\* The parameter check.
Arrives(r) ==
  /\ requests[r].pc = "start"
  /\ \/ Responds(r, ErrorResponse(400))
     \/ GoesTo(r, "select")
  /\ UNCHANGED romanizedCache
  /\ LockFrame

\* The cache lookup: .select(..).eq('video_id', videoId).single()
CacheCheck(r) ==
  /\ requests[r].pc = "select"
  /\ \/ /\ romanizedCache.exists
        /\ Responds(r, Json(romanizedCache.romanized_text, TRUE))
     \/ /\ ~romanizedCache.exists
        /\ GoesTo(r, "insert")
     \/ \* the lookup fails: cacheError is set
        GoesTo(r, "insert")
  /\ UNCHANGED romanizedCache
  /\ LockFrame

\* AcquireLock on a table without the unique constraint.
AcquireLockUnconstrained(r) ==
  /\ requests[r].pc = "insert"
  /\ romanizedCache' = Row("PROCESSING")
  /\ GoesTo(r, "processing")
  /\ LockFrame

\* The insert of the PROCESSING row, under the unique constraint on
\* video_id.
AcquireLock(r) ==
  /\ requests[r].pc = "insert"
  /\ \/ /\ ~romanizedCache.exists
        /\ romanizedCache' = Row("PROCESSING")
        /\ GoesTo(r, "processing")
     \/ /\ romanizedCache.exists      \* lockError.code === '23505'
        /\ GoesTo(r, "poll")
        /\ UNCHANGED romanizedCache
     \/ \* another lockError: throw lockError
        /\ Responds(r, ErrorResponse(500))
        /\ UNCHANGED romanizedCache
  /\ LockFrame

\* One turn of the polling loop, and the 408 when it was the last.
Poll(r) ==
  /\ requests[r].pc = "poll"
  /\ requests[r].retries < MaxRetries
  /\ IF romanizedCache.exists /\ romanizedCache.romanized_text # "PROCESSING"
     THEN Responds(r, Json(romanizedCache.romanized_text, TRUE))
     ELSE IF requests[r].retries + 1 < MaxRetries
     THEN /\ requests' = [requests EXCEPT ![r].retries = @ + 1]
          /\ UNCHANGED upsertTimed
     ELSE /\ requests' = [requests EXCEPT ![r].retries = @ + 1,
                                          ![r].pc = "done",
                                          ![r].response = ErrorResponse(408)]
          /\ UNCHANGED upsertTimed
  /\ UNCHANGED romanizedCache
  /\ LockFrame

\* The title, Genius and LLM steps succeed: the row is updated.
Romanizes(r) ==
  /\ requests[r].pc = "processing"
  /\ romanizedCache' =
       IF romanizedCache.exists
       THEN \* .update({ romanized_text, source, genius_reference })
            [romanizedCache EXCEPT !.romanized_text = "romaji",
                                   !.source = "llm"]
       ELSE romanizedCache
  /\ Responds(r, [status |-> 200, romanized |-> "romaji", cached |-> FALSE])
  /\ LockFrame

\* A processing step throws: the row is deleted, the error is answered.
ProcessingFails(r) ==
  /\ requests[r].pc = "processing"
  /\ romanizedCache' = NoRow
  /\ Responds(r, ErrorResponse(500))
  /\ LockFrame

\* POST /romaji/upsertTimed with a valid token and body: the upsert on
\* video_id, or its error.
UpsertTimed ==
  /\ requests # << >>
  /\ upsertTimed = "none"
  /\ \/ romanizedCache' = TimedRow /\ upsertTimed' = "saved"
     \/ UNCHANGED romanizedCache /\ upsertTimed' = "failed"
  /\ UNCHANGED requests
  /\ LockFrame

NextLock ==
  \/ \E r \in 1..NumRequests :
       \/ Arrives(r)
       \/ CacheCheck(r)
       \/ AcquireLock(r)
       \/ Poll(r)
       \/ Romanizes(r)
       \/ ProcessingFails(r)
  \/ UpsertTimed

SpecLock == InitLock /\ [][NextLock]_vars

\* ============================================================ properties
n_ == Len(donorLines)
m_ == Len(targetLines)

Iota(k) == [x \in 1..k |-> x - 1]            \* << 0, 1, .., k-1 >>

RECURSIVE FlatDonor(_)
FlatDonor(steps) ==
  IF steps = << >> THEN << >>
  ELSE Head(steps).donor \o FlatDonor(Tail(steps))

RECURSIVE FlatTarget(_)
FlatTarget(steps) ==
  IF steps = << >> THEN << >>
  ELSE Head(steps).target \o FlatTarget(Tail(steps))

IsSkip(step) == step.type \in {"skip_donor", "skip_target"}
NotSkip(step) == ~IsSkip(step)

StrictlyIncreasing(s) == \A k \in 1..(Len(s) - 1) : s[k] < s[k + 1]

\* C1 (as stated): the returned op list, concatenated, consumes every donor
\* index of [0,n) and every target index of [0,m) exactly once, in
\* increasing order, with no gap and no overlap.
C1_ReturnedOpsPartition ==
  pc # "ready" =>
    /\ FlatDonor(alignments) = Iota(n_)
    /\ FlatTarget(alignments) = Iota(m_)

\* C1 (amended): the backtrack walk, its skip steps included, consumes every
\* donor index of [0,n) and every target index of [0,m) exactly once in
\* increasing order; the returned op list is that walk with the skip steps
\* left out, so it holds Match, MergeDonor and SplitTarget ops only and the
\* skipped lines appear in no returned op.
C1_WalkPartition ==
  pc # "ready" =>
    /\ FlatDonor(trace) = Iota(n_)
    /\ FlatTarget(trace) = Iota(m_)
    /\ alignments = SelectSeq(trace, NotSkip)
    /\ \A k \in 1..Len(alignments) :
         alignments[k].type \in {"match", "merge_donor", "split_target"}

C1_Witness ==
  /\ pc = "aligned"
  /\ \E k \in 1..Len(trace) : IsSkip(trace[k])
  /\ \E k \in 1..Len(trace) :
       trace[k].type \in {"merge_donor", "split_target"}

\* ---------------------------------------------------------------- C2
\* The cost of one step of a walk, from the indices the step carries.
StepCost(step) ==
  LET dn(k) == donorLines[step.donor[k] + 1].normalized
      tg(k) == targetLines[step.target[k] + 1]
  IN CASE step.type = "match" -> levenshteinDistance(dn(1), tg(1))
       [] step.type = "skip_donor" -> 2
       [] step.type = "skip_target" -> 3
       [] step.type = "merge_donor" ->
            levenshteinDistance(dn(1) \o << " " >> \o dn(2), tg(1))
       [] step.type = "split_target" ->
            levenshteinDistance(dn(1), tg(1) \o << " " >> \o tg(2))

RECURSIVE PathCost(_)
PathCost(steps) ==
  IF steps = << >> THEN 0
  ELSE StepCost(Head(steps)) + PathCost(Tail(steps))

\* Every sequence of transitions leading from cell (0,0) to cell (i,j).
RECURSIVE PathsTo(_, _)
PathsTo(i, j) ==
  IF i = 0 /\ j = 0 THEN { << >> }
  ELSE
    (IF i > 0 /\ j > 0
       THEN { Append(p, Step("match", << i - 1 >>, << j - 1 >>)) :
                p \in PathsTo(i - 1, j - 1) }
       ELSE {})
    \cup (IF i > 0
       THEN { Append(p, Step("skip_donor", << i - 1 >>, << >>)) :
                p \in PathsTo(i - 1, j) }
       ELSE {})
    \cup (IF j > 0
       THEN { Append(p, Step("skip_target", << >>, << j - 1 >>)) :
                p \in PathsTo(i, j - 1) }
       ELSE {})
    \cup (IF i > 1 /\ j > 0
       THEN { Append(p, Step("merge_donor", << i - 2, i - 1 >>, << j - 1 >>)) :
                p \in PathsTo(i - 2, j - 1) }
       ELSE {})
    \cup (IF i > 0 /\ j > 1
       THEN { Append(p, Step("split_target", << i - 1 >>, << j - 2, j - 1 >>)) :
                p \in PathsTo(i - 1, j - 2) }
       ELSE {})

AllPaths == [i \in 0..MaxDonor, j \in 0..MaxTarget |-> PathsTo(i, j)]

MinPathCost ==
  LET costs == { PathCost(p) : p \in AllPaths[n_, m_] }
  IN CHOOSE c \in costs : \A x \in costs : c <= x

\* C2: dp[n][m] is the minimum, over every sequence of Match, SkipDonor,
\* SkipTarget, MergeDonor and SplitTarget transitions from (0,0) to (n,m),
\* of the summed transition costs; the backtrack finds a recorded transition
\* in every cell it visits, ends at (0,0), and the walk it follows is one of
\* those sequences, of summed cost exactly dp[n][m].
C2_TableIsMinimum ==
  pc = "aligned" =>
    /\ dpFinal = MinPathCost
    /\ stoppedAt = << 0, 0 >>
    /\ trace \in AllPaths[n_, m_]
    /\ PathCost(trace) = dpFinal

C2_Witness ==
  /\ pc = "aligned"
  /\ n_ = MaxDonor /\ m_ = MaxTarget
  /\ dpFinal > 0
  /\ \E k \in 1..Len(trace) : trace[k].type = "split_target"
  /\ \E k \in 1..Len(trace) : trace[k].type = "match"

\* ---------------------------------------------------------------- C3, C4
SegmentCount(op) == IF op.type = "split_target" THEN 2 ELSE 1

\* Number of segments emitted for the ops before the k-th op.
RECURSIVE Offset(_)
Offset(k) ==
  IF k <= 1 THEN 0 ELSE Offset(k - 1) + SegmentCount(alignments[k - 1])

CountOps(type) ==
  Cardinality({ k \in 1..Len(alignments) : alignments[k].type = type })

\* C3: a Match(i,j) yields exactly one segment {donor[i].start,
\* donor[i].end, target[j]}, a MergeDonor([i1,i2],j) exactly one segment
\* {donor[i1].start, donor[i2].end, target[j]}, skipped lines none, and the
\* number of segments is #Match + #MergeDonor + 2 * #SplitTarget; every
\* segment's text is a target line.
C3_SegmentPerOp ==
  pc = "built" =>
    /\ Len(segments) = CountOps("match") + CountOps("merge_donor")
                        + 2 * CountOps("split_target")
    /\ \A k \in 1..Len(alignments) :
         LET op == alignments[k]
             seg == segments[Offset(k) + 1]
         IN /\ op.type = "match" =>
                 seg = [start |-> donorLines[op.donor[1] + 1].start,
                        end |-> donorLines[op.donor[1] + 1].end,
                        text |-> targetLines[op.target[1] + 1]]
            /\ op.type = "merge_donor" =>
                 seg = [start |-> donorLines[op.donor[1] + 1].start,
                        end |-> donorLines[op.donor[2] + 1].end,
                        text |-> targetLines[op.target[1] + 1]]
    /\ \A s \in 1..Len(segments) :
         \E j \in 1..m_ : segments[s].text = targetLines[j]

C3_Witness ==
  /\ pc = "built"
  /\ \E k \in 1..Len(alignments) :
       /\ alignments[k].type = "merge_donor"
       /\ donorLines[alignments[k].donor[1] + 1].end
            # donorLines[alignments[k].donor[2] + 1].end
  /\ \E k \in 1..Len(trace) : IsSkip(trace[k])

\* C4: a SplitTarget(i,[j1,j2]) yields one segment per target line in
\* target-index order, each of duration (donor[i].end - donor[i].start)/2;
\* the first starts at donor[i].start, its end is the start of the second,
\* and the second ends at donor[i].end.
C4_SplitIsContiguous ==
  pc = "built" =>
    \A k \in 1..Len(alignments) :
      alignments[k].type = "split_target" =>
        LET op == alignments[k]
            donor == donorLines[op.donor[1] + 1]
            first == segments[Offset(k) + 1]
            second == segments[Offset(k) + 2]
        IN /\ first.text = targetLines[op.target[1] + 1]
           /\ second.text = targetLines[op.target[2] + 1]
           /\ op.target[1] < op.target[2]
           /\ 2 * (first.end - first.start) = donor.end - donor.start
           /\ 2 * (second.end - second.start) = donor.end - donor.start
           /\ first.start = donor.start
           /\ first.end = second.start
           /\ second.end = donor.end

C4_Witness ==
  /\ pc = "built"
  /\ \E k \in 1..Len(alignments) :
       /\ alignments[k].type = "split_target"
       /\ Len(alignments) > 1
       /\ donorLines[alignments[k].donor[1] + 1].end
            > donorLines[alignments[k].donor[1] + 1].start

\* ---------------------------------------------------------------- C5
\* C5: with donor lines satisfying end >= start >= 0 and listed in
\* non-decreasing order of start, the segments are in non-decreasing order
\* of start time.
C5_SegmentsMonotonic ==
  pc = "built" =>
    \A s \in 1..(Len(segments) - 1) :
      segments[s].start <= segments[s + 1].start

\* ---------------------------------------------------------------- C6
\* The target index of every emitted segment, in emission order.
RECURSIVE SegmentTargets(_)
SegmentTargets(ops) ==
  IF ops = << >> THEN << >>
  ELSE Head(ops).target \o SegmentTargets(Tail(ops))

\* C6: donor indices and target indices are strictly increasing along the
\* returned op list (so none occurs in two ops), and the segments come in
\* strictly increasing target-index order, each target line in at most one
\* segment.
C6_OpsStrictlyIncreasing ==
  /\ pc # "ready" =>
       /\ StrictlyIncreasing(FlatDonor(alignments))
       /\ StrictlyIncreasing(FlatTarget(alignments))
       /\ \A k \in 1..Len(FlatDonor(alignments)) :
            FlatDonor(alignments)[k] \in 0..(n_ - 1)
       /\ \A k \in 1..Len(FlatTarget(alignments)) :
            FlatTarget(alignments)[k] \in 0..(m_ - 1)
  /\ pc = "built" =>
       LET tg == SegmentTargets(alignments) IN
       /\ Len(segments) = Len(tg)
       /\ StrictlyIncreasing(tg)
       /\ \A s \in 1..Len(segments) :
            segments[s].text = targetLines[tg[s] + 1]

C6_Witness ==
  /\ pc = "built"
  /\ Len(alignments) >= 2
  /\ \E k \in 1..Len(trace) : IsSkip(trace[k])
  /\ \E j, k \in 1..m_ : j # k /\ targetLines[j] = targetLines[k]

\* ---------------------------------------------------------------- C7
Identical ==
  /\ n_ = m_
  /\ \A k \in 1..n_ : donorLines[k].normalized = targetLines[k]

\* C7: when donor and target have the same length n and
\* donor[i].normalized = target[i] for every i, the aligner returns exactly
\* the n ops Match(i,i) in order, and the segments keep each donor line's
\* start and end with text target[i].
C7_IdenticalAllMatch ==
  Identical =>
    /\ pc # "ready" =>
         alignments = [k \in 1..n_ |-> Step("match", << k - 1 >>, << k - 1 >>)]
    /\ pc = "built" =>
         segments = [k \in 1..n_ |->
                       [start |-> donorLines[k].start,
                        end |-> donorLines[k].end,
                        text |-> targetLines[k]]]

C7_Witness ==
  /\ pc = "built"
  /\ Identical
  /\ n_ = MaxDonor
  /\ \E j, k \in 1..n_ : j # k /\ targetLines[j] = targetLines[k]
  /\ \E k \in 1..n_ : Len(targetLines[k]) > 1
\* ------------------------------------------------------------------ C8
Returned == spc \in { "returnedPosition", "returnedNoLines", "returnedContent" }

\* C8 (as stated): a call whose cue list is empty, or whose reference text
\* keeps no line after filtering, never returns a successful result.
C8_EmptyInputFails ==
  (Returned
   /\ (\/ Len(subtitleLines) = 0
       \/ Len(SelectSeq(geniusLyrics, KeepLyricLineByPosition)) = 0))
  => result.ok = FALSE

\* ------------------------------------------------------------------ C9
RECURSIVE SumScores(_)
SumScores(log) ==
  IF Len(log) = 0 THEN Zero
  ELSE FracAdd(SumScores(SubSeq(log, 1, Len(log) - 1)), log[Len(log)].score)

\* The score the loop credits to the cue of 1-based index k.
CreditOf(k) ==
  CASE cueLog[k].kind = "continuation" -> Frac(95, 100)
    [] cueLog[k].kind = "sequential" -> Frac(3, 10)
    [] cueLog[k].kind = "combination" ->
         compareTwoStrings(normalizeText(subtitleLines[k]),
                           normalizeText(aligned[k]))
    [] OTHER -> Zero

\* C9: when the content matcher returns, every cue has been credited one
\* score (0.95 for a continuation, the similarity, above 0.4, for an accepted
\* combination, 0.3 for the sequential fallback, 0 for an empty cue or a
\* blank output), the confidence is the sum of these scores divided by the
\* number of cues, and the call fails with low_confidence, carrying the
\* aligned lines and the confidence, exactly when the confidence is below
\* 0.45.
C9_ConfidenceIsMeanScore ==
  spc = "returnedContent" =>
    LET S == Len(subtitleLines)
        mean == FracDiv(SumScores(cueLog), S)
    IN /\ Len(cueLog) = S
       /\ Len(aligned) = S
       /\ \A k \in 1..S :
            /\ cueLog[k].score = CreditOf(k)
            /\ cueLog[k].kind = "combination"
                 => FracLess(Frac(4, 10), cueLog[k].score)
            /\ cueLog[k].kind = "blank" => aligned[k] = << >>
       /\ result.confidence = mean
       /\ result.aligned = aligned
       /\ result.ok = ~FracLess(mean, Frac(45, 100))
       /\ ~result.ok => result.reason = "low_confidence"

\* A run that ends exactly on the threshold and is accepted: one accepted
\* combination and one sequential fallback.
C9_Witness ==
  /\ spc = "returnedContent"
  /\ result.ok = TRUE
  /\ result.confidence = Frac(45, 100)
  /\ \E k \in 1..Len(cueLog) : cueLog[k].kind = "combination"
  /\ \E k \in 1..Len(cueLog) : cueLog[k].kind = "sequential"

\* ----------------------------------------------------------------- C10
Last(s) == s[Len(s)]

\* What one iteration must do with a cue that is neither empty nor a
\* continuation and whose best combination does not score above 0.4.
FallbackStep ==
  IF lyricsIndex < Len(lyricsLines)
  THEN /\ lyricsIndex' = lyricsIndex + 1
       /\ Last(aligned') = lyricsLines[lyricsIndex + 1]
       /\ totalSimilarity' = FracAdd(totalSimilarity, Frac(3, 10))
  ELSE /\ lyricsIndex' = lyricsIndex
       /\ Last(aligned') = << >>
       /\ totalSimilarity' = totalSimilarity

NoGoodMatch ==
  /\ spc = "loop"
  /\ cueIdx' = cueIdx + 1
  /\ normalizeText(romanizedSubtitles[cueIdx + 1]) # << >>
  /\ Last(cueLog').kind # "continuation"
  /\ LET best == BestCombination([aligned |-> aligned,
                                  lyricsIndex |-> lyricsIndex],
                                 lyricsLines, romanizedSubtitles, cueIdx)
     IN ~(best.numLines > 0 /\ FracLess(Frac(4, 10), best.score))

\* C10: the cursor into the reference lines never moves backwards and never
\* passes the number of lines; a cue without a match above 0.4 takes exactly
\* one line, credited 0.3, when a line is left, and otherwise gets a blank
\* output, credited 0, with the cursor where it was.
C10_CursorBounded ==
  /\ [](lyricsIndex >= 0 /\ lyricsIndex <= Len(lyricsLines))
  /\ [][lyricsIndex' >= lyricsIndex]_vars
  /\ [][NoGoodMatch => FallbackStep]_vars

\* The loop has run out of lines and produced a blank output after a
\* sequential step.
C10_Witness ==
  /\ spc = "loop"
  /\ lyricsIndex = Len(lyricsLines)
  /\ \E k \in 1..Len(cueLog) : cueLog[k].kind = "sequential"
  /\ Len(cueLog) > 0
  /\ Last(cueLog).kind = "blank"

\* ----------------------------------------------------------------- C11
\* The cursor before the cue of 1-based index k was processed.
CursorBefore(k) == IF k = 1 THEN 0 ELSE cueLog[k - 1].cursor

\* The cue of 1-based index k reuses the output of the cue before it and
\* takes no reference line.
ExtendsPrevious(k) ==
  /\ aligned[k] = aligned[k - 1]
  /\ cueLog[k].cursor = CursorBefore(k)

\* C11 (as stated): a cue whose normalized text, more than 3 characters long
\* once spaces are removed, is a substring of the normalized text of the cue
\* before it gets the output text of that cue and consumes no reference line.
C11_SubstringOfPreviousCue ==
  \A k \in 2..Len(cueLog) :
    LET cur == normalizeText(romanizedSubtitles[k])
        prev == normalizeText(romanizedSubtitles[k - 1])
    IN (Len(RemoveSpaces(cur)) > 3 /\ includes(prev, cur))
         => ExtendsPrevious(k)

\* C11 (amended): a cue is a continuation exactly when the output text of
\* the cue before it is not empty and, normalized and with spaces removed,
\* contains the cue's normalized text with spaces removed, that text being
\* more than 3 characters long; a continuation gets the output text of the
\* cue before it, consumes no reference line and is credited 0.95.  The
\* text of the cue before it plays no part.
C11_ContinuationOfPreviousOutput ==
  \A k \in 1..Len(cueLog) :
    LET cur == RemoveSpaces(normalizeText(romanizedSubtitles[k]))
        covered == /\ k > 1
                   /\ aligned[k - 1] # << >>
                   /\ includes(RemoveSpaces(normalizeText(aligned[k - 1])), cur)
                   /\ Len(cur) > 3
    IN /\ covered <=> cueLog[k].kind = "continuation"
       /\ covered => /\ ExtendsPrevious(k)
                     /\ cueLog[k].score = Frac(95, 100)

\* A continuation after a cue with a different text, in a run where a line
\* was still left to consume; and a cue contained in the output before it
\* but too short to be a continuation.
C11_Witness ==
  /\ Len(cueLog) = 2
  /\ cueLog[2].kind = "continuation"
  /\ romanizedSubtitles[1] # romanizedSubtitles[2]
  /\ cueLog[2].cursor < Len(lyricsLines)

\* ----------------------------------------------------------------- C12
\* C12 (as stated): alignLyricsToSubtitles and alignByPosition derive the
\* same line list from the raw reference text: the trimmed lines without the
\* empty lines, the [Label: text] lines, the bracketed section names with or
\* without a number, and the bracketed lines with a corner quote, in order.
C12_SameFilteredLines ==
  spc \in { "loop", "returnedPosition", "returnedNoLines", "returnedContent" }
    => lyricsLines = SelectSeq(geniusLyrics, KeepLyricLine)

\* ----------------------------------------------------------------- C13
PosL == Len(lyricsLines)
PosS == Len(subtitleLines)

\* The 0-based index of a reference line, the lines being distinct.
LineIndex(text) == CHOOSE k \in 0..(PosL - 1) : lyricsLines[k + 1] = text

Sparse == spc = "returnedPosition" /\ 1 <= PosL /\ PosL < PosS

\* What every answer to a sparse reference has: one line per cue, in
\* range, non-decreasing, every reference line used.
SpreadsAllLines ==
  /\ result.ok
  /\ result.method = "position-fallback"
  /\ Len(result.aligned) = PosS
  /\ \A k \in 1..PosS :
       \E j \in 1..PosL : result.aligned[k] = lyricsLines[j]
  /\ \A k \in 1..(PosS - 1) :
       LineIndex(result.aligned[k]) <= LineIndex(result.aligned[k + 1])
  /\ \A j \in 1..PosL :
       \E k \in 1..PosS : result.aligned[k] = lyricsLines[j]

\* C13 (as stated): with 1 <= L < S, cue i receives reference line
\* floor(i*L/S), which lies in [0, L-1]; the indices are non-decreasing and
\* every reference line goes to at least one cue.
C13_ExactFloorIndex ==
  Sparse =>
    /\ SpreadsAllLines
    /\ \A i \in 0..(PosS - 1) :
         LineIndex(result.aligned[i + 1]) = (i * PosL) \div PosS

\* C13 (amended): with 1 <= L < S, cue i receives reference line
\* Math.floor(i * (L / S)) computed in doubles: that is floor(i*L/S), or one
\* less where i*L/S is a whole number that the rounded product falls short
\* of; the index lies in [0, L-1], the indices are non-decreasing and every
\* reference line goes to at least one cue.
C13_FloorIndexUpToRounding ==
  Sparse =>
    /\ SpreadsAllLines
    /\ \A i \in 0..(PosS - 1) :
         LET idx == LineIndex(result.aligned[i + 1])
             exact == (i * PosL) \div PosS
         IN \/ idx = exact
            \/ idx = exact - 1 /\ (i * PosL) % PosS = 0

\* 30 reference lines over 44 cues: cue 22 gets line 14, not line 15.
C13_Witness ==
  /\ Sparse
  /\ PosL = 30
  /\ PosS = 44
  /\ LineIndex(result.aligned[23]) = 14

\* ----------------------------------------------------------------- C14
Dense == spc = "returnedPosition" /\ PosS <= PosL /\ 2 * PosL <= 3 * PosS

\* C14 (as stated): with S <= L <= 1.5*S, cue i receives the reference lines
\* of indices floor(i*L/S) up to, not including, floor((i+1)*L/S), joined by
\* ", "; every window holds 1 or 2 lines, and the windows, one after the
\* other, are the L reference lines, each exactly once, in order.
C14_WindowsCoverAll ==
  Dense =>
    /\ result.ok
    /\ Len(result.aligned) = PosS
    /\ \A i \in 0..(PosS - 1) :
         LET from == (i * PosL) \div PosS
             to == ((i + 1) * PosL) \div PosS
         IN /\ to - from \in { 1, 2 }
            /\ result.aligned[i + 1] = join(SubSeq(lyricsLines, from + 1, to))
    /\ join(result.aligned) = join(lyricsLines)

\* ----------------------------------------------------------------- C15
\* C15: a call on Japanese cues whose romanizer is not ready after
\* initKuroshiro returns with exactly the result of
\* alignByPosition(geniusLyrics, subtitleLines) (on success: method
\* 'position-fallback', confidence 0.70); it has compared no cue with the
\* reference, and the failure of the initialization ends in a returned
\* result, not in an exception.
C15_UnavailableFallsBack ==
  /\ (Returned /\ firstIsJapanese /\ ~kuroshiroReady) =>
       /\ spc = "returnedPosition"
       /\ result = alignByPosition(geniusLyrics, subtitleLines)
       /\ result.ok => /\ result.method = "position-fallback"
                       /\ result.confidence = Frac(7, 10)
       /\ cueLog = << >>
       /\ aligned = << >>
       /\ romanizedSubtitles = << >>
  /\ (spc \in { "loop", "returnedContent", "returnedNoLines" })
       => kuroshiroReady

\* kuroshiro.init has rejected and the call has returned the positional
\* answer.
C15_Witness ==
  /\ spc = "returnedPosition"
  /\ firstIsJapanese
  /\ kuroshiro = "object"
  /\ ~kuroshiroReady
  /\ result.ok
  /\ Len(result.aligned) = MaxCues

\* ----------------------------------------------------------------- C16
\* What a call returns when it runs alone on a server whose romanizer
\* loads.
AloneResult(c) ==
  IF calls[c].firstIsJapanese
  THEN ContentMatching(calls[c].geniusLyrics, calls[c].subtitleLines)
  ELSE alignByPosition(calls[c].geniusLyrics, calls[c].subtitleLines)

\* No initialization of the romanizer has failed so far.
NoInitFailure ==
  \A c \in 1..NumCalls : calls[c].via \notin { "initThrew", "initRejected" }

\* C16: concurrent calls are independent: on a server whose romanizer has
\* loaded without a failure, every returned call holds the result it would
\* return alone; a call that started while the initialization of another
\* call was pending is not answered by position.
C16_CallsIndependent ==
  (calls # << >> /\ kuroshiroReady /\ NoInitFailure) =>
    \A c \in 1..NumCalls :
      calls[c].pc = "returned" => calls[c].result = AloneResult(c)

\* ----------------------------------------------------------------- C17
Rank(step) ==
  CASE step = "manualJA" -> 1
    [] step = "asrJA" -> 2
    [] step = "whisper" -> 3
    [] step = "donor" -> 4

Entries == { ladderLog[k] : k \in 1..Len(ladderLog) }

HasEntry(step, outcome) == [step |-> step, outcome |-> outcome] \in Entries

Tried(step) == \E e \in Entries : e.step = step

\* A finished run that has set currentResult.
RunSucceeded == hpc = "done" /\ ~IsNull(currentResult)

\* C17: the timing sources are tried in the order manual JA, ASR JA,
\* Whisper, donor; the ASR track is fetched only if the manual track gave no
\* non-empty caption list, alignWithWhisper runs only if neither track gave
\* one, the donor search runs only if ENABLE_DONOR is set and alignWithWhisper
\* has rejected; the run stops at the step that produces segments, and
\* timingPath names that step.
C17_StrictPriorityOrder ==
  /\ \A k \in 1..(Len(ladderLog) - 1) :
       /\ Rank(ladderLog[k].step) <= Rank(ladderLog[k + 1].step)
       /\ ladderLog[k].outcome \notin { "segments", "threw", "notFound" }
  /\ Tried("asrJA") => ~HasEntry("manualJA", "captions")
  /\ Tried("whisper") =>
       ~HasEntry("manualJA", "captions") /\ ~HasEntry("asrJA", "captions")
  /\ Tried("donor") => enableDonor /\ HasEntry("whisper", "rejected")
  /\ \A step \in { "manualJA", "asrJA" } :
       HasEntry(step, "segments") => HasEntry(step, "captions")
  /\ RunSucceeded =>
       /\ Last(ladderLog) = [step |-> currentResult.timingPath,
                             outcome |-> "segments"]
       /\ currentResult.segments = segments
       /\ currentResult.timingPath \in { "manualJA", "asrJA", "whisper",
                                         "donor" }

\* The manual track was empty, the ASR track gave the segments.
C17_Witness ==
  /\ RunSucceeded
  /\ currentResult.timingPath = "asrJA"
  /\ HasEntry("manualJA", "empty")
  /\ Len(currentResult.segments) > 0

\* ----------------------------------------------------------------- C18
\* A finished run that went into the ladder and left currentResult null.
RunFailed == hpc = "done" /\ ladderLog # << >> /\ IsNull(currentResult)

\* C18: a failing step is not fatal: a run ends in failure only after
\* alignWithWhisper has rejected and, if ENABLE_DONOR is set, the donor
\* search has been made; and a run that ends in success holds segments.
C18_StepFailureAdvances ==
  /\ RunFailed =>
       /\ HasEntry("whisper", "rejected")
       /\ enableDonor => Tried("donor")
       /\ pushDbBtnDisabled
  /\ RunSucceeded => Len(currentResult.segments) > 0

\* ----------------------------------------------------------------- C19
\* C19: with ENABLE_DONOR set, alignWithWhisper rejected and a donor video
\* with Japanese captions found, the run ends with currentResult set,
\* timingPath 'donor', segments timed from the donor captions and the push
\* button enabled.
C19_DonorPathSucceeds ==
  (hpc = "done" /\ HasEntry("donor", "found")) =>
    /\ ~IsNull(currentResult)
    /\ currentResult.timingPath = "donor"
    /\ Len(currentResult.segments) > 0
    /\ ~pushDbBtnDisabled

\* ----------------------------------------------------------------- C20
\* C20: no request answers a client with the placeholder 'PROCESSING' as
\* the romanized text: while the marker is held, the other requests wait
\* for the finished text or end with 408.
C20_NeverAnswersPlaceholder ==
  \A r \in DOMAIN requests :
    requests[r].response.status = 200 =>
      requests[r].response.romanized # "PROCESSING"

\* ----------------------------------------------------------------- C21
\* The requests between their insert of the PROCESSING row and their cache
\* update or cleanup.
Holders == { r \in DOMAIN requests : requests[r].pc = "processing" }

\* C21: at most one POST /romanize request per video is between its
\* successful insert of the PROCESSING row and its update or cleanup.
C21_OneHolder == Cardinality(Holders) <= 1

\* One request holds the marker while another one polls.
C21_Witness ==
  \E r, q \in DOMAIN requests :
    /\ requests[r].pc = "processing"
    /\ requests[q].pc = "poll"
    /\ requests[q].retries > 0

\* ----------------------------------------------------------------- C28
\* C28: POST /romanize touches a row only while it is its own PROCESSING
\* placeholder: once upsertTimed has saved its row, that row stays exactly
\* as upserted, neither deleted by the cleanup of /romanize nor partly
\* overwritten by its update.
C28_UpsertedRowKept ==
  upsertTimed = "saved" => romanizedCache = TimedRow

\* ----------------------------------------------------------------- C22
\* The cue of 1-based index k has a non-empty normalized text.
HasText(k) == normalizeText(romanizedSubtitles[k]) # << >>

\* The previous output covers the cue of 1-based index k.
CoveredByPreviousOutput(k) ==
  /\ k > 1
  /\ Len(aligned[k - 1]) > 0
  /\ Len(RemoveSpaces(normalizeText(romanizedSubtitles[k]))) > 3
  /\ includes(RemoveSpaces(normalizeText(aligned[k - 1])),
              RemoveSpaces(normalizeText(romanizedSubtitles[k])))

\* C22: a cue with a non-empty normalized text is handled as a continuation
\* exactly when the previous output is non-empty and contains, both
\* normalized and without spaces, the cue's text, which is then more than 3
\* characters long; the output repeats the previous output, 0.95 is added to
\* the confidence sum and lyricsIndex does not move.  A cue without text is
\* never a continuation.
C22_ContinuationExactlyWhenCovered ==
  /\ \A k \in 1..Len(cueLog) :
       /\ HasText(k) =>
            (cueLog[k].kind = "continuation" <=> CoveredByPreviousOutput(k))
       /\ ~HasText(k) => cueLog[k].kind = "empty"
       /\ cueLog[k].kind = "continuation" =>
            /\ aligned[k] = aligned[k - 1]
            /\ cueLog[k].score = ContinuationScore
            /\ cueLog[k].cursor = cueLog[k - 1].cursor
            /\ matchDetails[Len(matchDetails)].kind = "continuation"
                 \/ k < Len(cueLog)
  /\ spc = "loop" =>
       /\ totalSimilarity = SumScores(cueLog)
       /\ Len(cueLog) > 0 => lyricsIndex = cueLog[Len(cueLog)].cursor

\* The loop has just handled a continuation: the sum grew by 0.95 and the
\* cursor stayed where the cue before left it.
C22_Witness ==
  /\ spc = "loop"
  /\ Len(cueLog) = 2
  /\ cueLog[2].kind = "continuation"
  /\ totalSimilarity = FracAdd(cueLog[1].score, ContinuationScore)
  /\ lyricsIndex = cueLog[1].cursor
  /\ lyricsIndex > 0

\* ----------------------------------------------------------------- C23
\* The cue of 1-based index k went to the combination search.
Searched(k) == cueLog[k].kind \in { "combination", "sequential", "blank" }

\* The window of w reference lines at the cursor of cue k, and its score.
WindowLines(k, w) == SubSeq(lyricsLines, CursorBefore(k) + 1, CursorBefore(k) + w)

WindowScore(k, w) ==
  compareTwoStrings(normalizeText(romanizedSubtitles[k]),
                    normalizeText(join(WindowLines(k, w))))

\* The window sizes open to cue k: 1 .. min(4, lines remaining).
WindowSizes(k) == 1..Min2(MaxLinesToCombine, Len(lyricsLines) - CursorBefore(k))

\* The window sizes that are scored: up to the first one scoring > 0.90.
ScoredSizes(k) ==
  { w \in WindowSizes(k) :
      \A v \in WindowSizes(k) : v < w => ~FracLess(PerfectScore, WindowScore(k, v)) }

\* What the search hands to the anti-greedy check for cue k.
Searching(k) ==
  ScanCombinations(lyricsLines, CursorBefore(k),
                   normalizeText(romanizedSubtitles[k]), 1, NoCombination)

\* C23: the combination chosen before the anti-greedy check is a window of
\* 1 .. min(4, lines remaining) consecutive lines at lyricsIndex; windows are
\* scored in increasing size up to the first one scoring > 0.90, which is
\* then chosen; otherwise the shortest window attaining the maximum score
\* is chosen; if every window scores 0, or no line remains, none is chosen.
C23_ShortestBestWindow ==
  \A k \in 1..Len(cueLog) :
    Searched(k) =>
      LET chosen == Searching(k)
          scored == ScoredSizes(k)
          positive == { w \in scored : FracLess(Zero, WindowScore(k, w)) }
      IN /\ chosen.numLines = 0 <=> positive = { }
         /\ chosen.numLines > 0 =>
              /\ chosen.numLines \in scored
              /\ chosen.lines = WindowLines(k, chosen.numLines)
              /\ chosen.text = join(chosen.lines)
              /\ chosen.score = WindowScore(k, chosen.numLines)
              /\ \A w \in scored :
                   /\ ~FracLess(chosen.score, WindowScore(k, w))
                   /\ w < chosen.numLines =>
                        FracLess(WindowScore(k, w), chosen.score)
              /\ \A w \in scored :
                   FracLess(PerfectScore, WindowScore(k, w))
                     => chosen.numLines = w

\* Four lines were open to the cue, all four windows were scored, and the
\* fourth was chosen; the cue took its four lines.
C23_Witness ==
  /\ Len(cueLog) >= 1
  /\ Searched(1)
  /\ ScoredSizes(1) = 1..MaxLinesToCombine
  /\ Searching(1).numLines = MaxLinesToCombine
  /\ cueLog[1].cursor = MaxLinesToCombine

\* ----------------------------------------------------------------- C24
\* The normalized text of the cue after the cue of 1-based index k.
NextCue(k) == normalizeText(romanizedSubtitles[k + 1])

\* The later lines j (1 <= j < numLines) of the combination found for cue k
\* that the next cue needs: it scores > 0.75 against the line and the line
\* covers > 0.80 of it.
NeededLines(k) ==
  LET best == Searching(k) IN
  { j \in 1..(best.numLines - 1) :
      LET line == normalizeText(best.lines[j + 1]) IN
      /\ FracLess(NextMatchMin, compareTwoStrings(NextCue(k), line))
      /\ FracLess(ReverseMatchMin,
                  IF includes(line, NextCue(k)) THEN One
                  ELSE compareTwoStrings(line, NextCue(k))) }

SmallestNeeded(k) ==
  CHOOSE j \in NeededLines(k) : \A x \in NeededLines(k) : j <= x

\* The cue of 1-based index k, followed by a cue with text, went to the
\* search, which found a combination of several lines holding a line the
\* next cue needs.
NextCueStarved(k) ==
  /\ Searched(k)
  /\ k < Len(romanizedSubtitles)
  /\ NextCue(k) # << >>
  /\ Searching(k).numLines > 1
  /\ NeededLines(k) # { }

\* The cue of 1-based index k took the first j lines of its window, or,
\* their score being 0.4 or less, the one line of the sequential fallback.
ShrunkTo(k, j) ==
  LET rescored == WindowScore(k, j) IN
  /\ cueLog[k].cursor <= CursorBefore(k) + j
  /\ IF FracLess(AcceptScore, rescored)
     THEN /\ cueLog[k].kind = "combination"
          /\ cueLog[k].score = rescored
          /\ aligned[k] = join(WindowLines(k, j))
          /\ cueLog[k].cursor = CursorBefore(k) + j
     ELSE /\ cueLog[k].kind = "sequential"
          /\ aligned[k] = lyricsLines[CursorBefore(k) + 1]
          /\ cueLog[k].cursor = CursorBefore(k) + 1

\* C24 (as stated): whenever the best combination spans several lines and
\* the next cue needs a later line j of it, the combination is shrunk to its
\* first j lines, for the smallest such j, and re-scored; the cue consumes
\* at most j lines and line j is left to the next cue.
C24_ShrinksWheneverNeeded ==
  \A k \in 1..Len(cueLog) :
    NextCueStarved(k) => ShrunkTo(k, SmallestNeeded(k))

\* C24 (amended): the same, unless the normalized text of the combination
\* contains the normalized text of the next cue: the combination is then
\* kept whole.
C24_ShrinksUnlessContained ==
  \A k \in 1..Len(cueLog) :
    NextCueStarved(k) =>
      IF includes(normalizeText(Searching(k).text), NextCue(k))
      THEN \/ /\ cueLog[k].kind = "combination"
              /\ aligned[k] = Searching(k).text
              /\ cueLog[k].cursor = CursorBefore(k) + Searching(k).numLines
           \/ /\ cueLog[k].kind = "sequential"
              /\ ~FracLess(AcceptScore, Searching(k).score)
      ELSE ShrunkTo(k, SmallestNeeded(k))

\* A combination of two lines was shrunk to its first line, the second
\* line being left to the next cue.
C24_Witness ==
  /\ Len(cueLog) = 1
  /\ NextCueStarved(1)
  /\ ~includes(normalizeText(Searching(1).text), NextCue(1))
  /\ Searching(1).numLines = 2
  /\ cueLog[1].kind = "combination"
  /\ cueLog[1].cursor = 1

\* ----------------------------------------------------------------- C25
\* alignWithWhisper resolved in this run, which holds its result.
WhisperResolved ==
  /\ HasEntry("whisper", "segments")
  /\ ~IsNull(currentResult)
  /\ currentResult.timingPath = "whisper"

\* C25: alignWithWhisper resolves only if the fraction of target lines that
\* occur in a match, merge_donor or split_target op is at least 0.70, for
\* every target list, the empty one included: it never resolves with an
\* alignment in which no target line was aligned.
C25_ResolvesOnlyWithCoverage ==
  WhisperResolved =>
    /\ AlignedLines(alignments) # { }
    /\ 10 * Cardinality(AlignedLines(alignments)) >= 7 * Len(targetLines)

\* ----------------------------------------------------------------- C27
\* C27: from the spawn of the Whisper subprocess until it has closed, the
\* flag whisperInProgress is true.
C27_FlagHeldWhileSubprocessRuns ==
  proc \in { "running", "killed" } => whisperInProgress

\* ----------------------------------------------------------------- C26
\* C26: every started handleFetchAlign run terminates, the Fetch & Align
\* button being enabled again, even if the Whisper subprocess never
\* responds: its invocation is bounded by the download timeout.
C26_RunTerminates == fetchAlignBtnDisabled ~> ~fetchAlignBtnDisabled

\* ----------------------------------------------------------------- C29
\* The Levenshtein distance between the two texts an op pairs: the donor
\* lines joined by a space against the target lines joined by a space.
JoinedDonor(op) ==
  IF Len(op.donor) = 1 THEN donorLines[op.donor[1] + 1].normalized
  ELSE donorLines[op.donor[1] + 1].normalized \o Space
       \o donorLines[op.donor[2] + 1].normalized

JoinedTarget(op) ==
  IF Len(op.target) = 1 THEN targetLines[op.target[1] + 1]
  ELSE targetLines[op.target[1] + 1] \o Space \o targetLines[op.target[2] + 1]

OpDistance(op) == levenshteinDistance(JoinedDonor(op), JoinedTarget(op))

\* C29: no op returned by alignSequencesSync pairs very dissimilar text: a
\* match has distance <= 5, a merge_donor distance <= 6 between the joined
\* donor pair and the target, a split_target distance <= 7 between the donor
\* and the joined target pair.
C29_NoFarPairs ==
  pc # "ready" =>
    \A k \in 1..Len(alignments) :
      LET op == alignments[k] IN
      /\ op.type = "match" => OpDistance(op) <= 5
      /\ op.type = "merge_donor" => OpDistance(op) <= 6
      /\ op.type = "split_target" => OpDistance(op) <= 7

\* A run returns a merge_donor op whose joined donor pair lies exactly 6
\* from its target.
C29_Witness ==
  /\ pc = "aligned"
  /\ \E k \in 1..Len(alignments) :
       /\ alignments[k].type = "merge_donor"
       /\ OpDistance(alignments[k]) = 6

\* ----------------------------------------------------------------- C30
\* The call has returned a result that carries an aligned list.
CarriesAligned ==
  /\ Returned
  /\ (result.ok \/ result.reason = "low_confidence")

\* C30: a result of alignLyricsToSubtitles or alignByPosition that carries
\* an aligned list (ok, or low_confidence) has exactly one entry per cue.
C30_OneEntryPerCue ==
  CarriesAligned => Len(result.aligned) = Len(subtitleLines)

\* The main loop has returned a list for more cues than there are reference
\* lines, its last entry being the blank of an exhausted reference.
C30_Witness ==
  /\ CarriesAligned
  /\ spc = "returnedContent"
  /\ Len(subtitleLines) > Len(lyricsLines)
  /\ Last(result.aligned) = << >>

====
